---- MODULE Spec2Model ----
(***************************************************************************)
(* Model of the IPC session layer of obs-telemetry-bridge                  *)
(* (src/obs-telemetry-bridge/src/ipc/mod.rs): the cooperative session loop *)
(* handle_session_io, its pending-switch table, session overrides,         *)
(* protocol-error tracker, snapshot builder and debug mirror.              *)
(*                                                                         *)
(* Conventions.                                                            *)
(*   - Option<T>: None is {} and Some(x) is {x}.                           *)
(*   - Instants and durations are integers in milliseconds; `now` is the   *)
(*     monotonic clock (Instant::now()).  Wall-clock stamps (ts_unix_ms,   *)
(*     updated_ts_unix_ms) and envelope ids/timestamps of outbound frames  *)
(*     are fresh values no handler reads back; they are left out.          *)
(*   - Uuid::new_v4() request ids are fresh: modelled by a counter.        *)
(*   - u32 values of the snapshot are pairs <<hi, lo>> of 16-bit halves.   *)
(*   - `out` is the sequence of frames the last step wrote to the evt      *)
(*     channel, `inp` the inbound frame that step consumed (Option).       *)
(***************************************************************************)
EXTENDS Integers, Sequences, FiniteSets, TLC

\* ---------------------------------------------------------------- constants
IPC_PROTOCOL_VERSION == 1

\* cfg(not(test)) values, in milliseconds
READ_POLL_TIMEOUT == 250

STATUS_PUSH_INTERVAL == 1000

HEARTBEAT_TIMEOUT == 3500

\* Duration::from_secs(10), in milliseconds
PROTOCOL_ERROR_WINDOW == 10000

PROTOCOL_ERROR_RESET_THRESHOLD == 5

MAX_FRAME_SIZE == 64 * 1024

\* ------------------------------------------------------------------- bounds
\* the clock stops after MaxTicks ticks
MaxTicks == 2

\* number of SwitchScene commands producers send (request ids 1..MaxRequests)
MaxRequests == 2

\* commands queued on the fan-in bus and not yet drained (capacity 64 in the code)
MaxQueue == 1

\* inbound frames the peer sends in one session
MaxInbound == 3

\* a telemetry frame carries at most MaxStreams streams
MaxStreams == 3

\* connections the listener accepts, one after the other
MaxSessions == 2

VARIABLES
  \* environment
  now,                  \* Instant::now(), ms
  core_cmd_rx,          \* commands queued on the session's broadcast receiver
  evt_closed,           \* the peer closed the evt channel: writes fail
  telemetry,            \* watch cell rx.borrow()
  relay_cell,           \* aegis_session_snapshot
  next_uuid,            \* source of fresh request ids
  session_no,           \* sessions the listener has accepted so far
  cmd_reader,           \* the cmd pipe: bytes written and unread, what the pending
                        \* read_frame has taken, what the peer still owes of a frame
  \* handle_session_io locals
  pc,                   \* position in the loop body
  result,               \* "running", or the io::Result returned: "ok" / "err"
  handshake_complete,
  last_ping_at,
  last_status_push_at,
  read_started_at,      \* when the pending timeout(read_frame) was started (0 outside the read)
  pending_switches,     \* request_id -> [scene_name, deadline_at]
  session_overrides,
  protocol_errors,      \* ProtocolErrorTracker.recent
  expired_ids,          \* the sweep's expired_ids still to visit
  expired,              \* the entry the sweep removed and is reporting (Option)
  \* observable
  debug_status,         \* the debug mirror
  out,                  \* frames the last session step wrote to evt
  inp,                  \* the inbound frame the last session step consumed (Option)
  \* history
  sent,                 \* commands producers sent so far
  drained,              \* request ids emitted by the command intake of this iteration
  counted,              \* instants of the protocol errors handed to the tracker
  inbound_left,         \* inbound frames the peer may still send (bounds the run)
  emitted,              \* request ids of switch_scene frames written
  fired,                \* request ids the sweep removed
  acked,                \* request ids of well-formed scene_switch_result frames dispatched
  terminal,             \* request_id -> the ok/error/timeout results written to the mirror,
                        \* each with whether the deadline had passed by then
  last_snapshot_at,     \* Some(instant of the last status_snapshot written since the hello_ack)
  last_reply_at         \* Some(instant of the last reply to a request_status received in Running)

envv ==
  <<now, core_cmd_rx, evt_closed, telemetry, relay_cell, next_uuid, session_no, cmd_reader>>

locals ==
  <<pc, result, handshake_complete, last_ping_at, last_status_push_at, read_started_at,
    pending_switches, session_overrides, protocol_errors, expired_ids, expired>>

obsv == <<debug_status, out, inp>>

hist ==
  <<sent, drained, counted, inbound_left, emitted, fired, acked, terminal, last_snapshot_at,
    last_reply_at>>

vars == <<envv, locals, obsv, hist>>

\* ------------------------------------------------------------------ helpers
None == {}

Some(x) == {x}

IsSome(o) == o # {}

Unwrap(o) == CHOOSE x \in o : TRUE

Range(s) == {s[i] : i \in 1..Len(s)}

\* all orderings of a finite set, as sequences without repetition
Orderings(S) ==
  {s \in [1..Cardinality(S) -> S] : \A i, j \in 1..Cardinality(S) : s[i] = s[j] => i = j}

\* HashMap::remove that forgets to remove
MapRemoveKeeps(m, k) == m

\* a map without the key k (HashMap::remove)
MapRemove(m, k) == [x \in (DOMAIN m) \ {k} |-> m[x]]

\* HashMap::insert that drops the entry
MapInsertDrops(m, k, v) == m

\* a map with k bound to v (HashMap::insert)
MapInsert(m, k, v) == [x \in (DOMAIN m) \cup {k} |-> IF x = k THEN v ELSE m[x]]

EmptyMap == [x \in {} |-> 0]


\* ------------------------------------------------------- protocol-error tracker
\* the while-let loop of record_and_should_reset: pop the front while it is
\* older than the window
RECURSIVE TrimFront(_, _)
TrimFront(recent, t) ==
  IF recent # <<>> /\ t - Head(recent) > PROTOCOL_ERROR_WINDOW
  THEN TrimFront(Tail(recent), t)
  ELSE recent

\* a tracker that resets on reaching the threshold
record_and_should_reset_at_threshold(recent, t) ==
  [recent |-> Append(recent, t),
   reset |-> Len(recent) + 1 >= PROTOCOL_ERROR_RESET_THRESHOLD]

\* ProtocolErrorTracker::record_and_should_reset at instant t:
\* the tracker afterwards and the returned flag
record_and_should_reset(recent, t) ==
  LET trimmed == TrimFront(Append(recent, t), t)
  IN [recent |-> trimmed, reset |-> Len(trimmed) > PROTOCOL_ERROR_RESET_THRESHOLD]

\* ------------------------------------------------------------ session overrides
SessionOverridesDefault ==
  [mode |-> None, auto_scene_switch |-> None, low_quality_fallback |-> None,
   manual_override |-> None, chat_bot |-> None, alerts |-> None]

\* a set_mode that reports a change every time
set_mode_always(ov, mode) == [ov |-> [ov EXCEPT !.mode = Some(mode)], changed |-> TRUE]

\* SessionOverrides::set_mode_if_changed: the overrides afterwards and the flag
set_mode_if_changed(ov, mode) ==
  IF ov.mode = Some(mode)
  THEN [ov |-> ov, changed |-> FALSE]
  ELSE [ov |-> [ov EXCEPT !.mode = Some(mode)], changed |-> TRUE]

KnownSettingKeys ==
  {"auto_scene_switch", "low_quality_fallback", "manual_override", "chat_bot", "alerts"}

\* an apply_setting that lets an unknown key pass as unchanged
apply_setting_lenient(ov, key, value) ==
  IF key \notin DOMAIN ov \/ key = "mode"
  THEN [ov |-> ov, ok |-> TRUE, changed |-> FALSE]
  ELSE IF ov[key] = Some(value)
       THEN [ov |-> ov, ok |-> TRUE, changed |-> FALSE]
       ELSE [ov |-> [ov EXCEPT ![key] = Some(value)], ok |-> TRUE, changed |-> TRUE]

\* SessionOverrides::apply_setting_if_changed: Err(()) for an unknown key
apply_setting_if_changed(ov, key, value) ==
  IF key \notin KnownSettingKeys
  THEN [ov |-> ov, ok |-> FALSE, changed |-> FALSE]
  ELSE IF ov[key] = Some(value)
       THEN [ov |-> ov, ok |-> TRUE, changed |-> FALSE]
       ELSE [ov |-> [ov EXCEPT ![key] = Some(value)], ok |-> TRUE, changed |-> TRUE]

\* a test that looks at manual_override alone
has_manual_override(ov) == IsSome(ov.manual_override)

has_any_settings(ov) ==
  \/ IsSome(ov.auto_scene_switch)
  \/ IsSome(ov.low_quality_fallback)
  \/ IsSome(ov.manual_override)
  \/ IsSome(ov.chat_bot)
  \/ IsSome(ov.alerts)

\* ------------------------------------------------------------------ cmd pipe
\* The pipe holds runs of bytes: a length prefix ("len"), the body of a
\* well-formed frame ("body"), the body of a frame above the size limit ("over"),
\* other bytes ("fill").  A run is n bytes long; `value` is what
\* read_u32_le yields when it takes four of them (the declared length for a
\* length prefix), `frame` the envelope the run decodes to when it is taken whole
\* as a body, `echo` the peer's text that the decoder's error message repeats.
EmptyReader == [unread |-> <<>>, partial |-> None, owed |-> None]

Run(kind, n, value, frame, echo) ==
  [kind |-> kind, n |-> n, value |-> value, frame |-> frame, echo |-> echo]

RECURSIVE Bytes(_)
Bytes(runs) == IF runs = <<>> THEN 0 ELSE Head(runs).n + Bytes(Tail(runs))

\* the pipe after k of its bytes were taken; a run taken in part no longer
\* decodes
RECURSIVE DropBytes(_, _)
DropBytes(runs, k) ==
  IF k = 0 \/ runs = <<>> THEN runs
  ELSE IF Head(runs).n <= k THEN DropBytes(Tail(runs), k - Head(runs).n)
  ELSE <<[Head(runs) EXCEPT !.n = @ - k, !.kind = IF @ = "over" THEN "over" ELSE "fill",
                            !.frame = None, !.echo = ""]>>
         \o Tail(runs)

\* read_frame can go on with what the pipe holds
CanRead ==
  IF cmd_reader.partial = None
  THEN Bytes(cmd_reader.unread) >= 4
  ELSE Bytes(cmd_reader.unread) >= Unwrap(cmd_reader.partial)

\* ------------------------------------------------------------- snapshot builder
U16 == 256 * 256

\* u32::wrapping_add on <<hi, lo>> pairs
wrapping_add(a, b) ==
  LET lo == a[2] + b[2]
      hi == a[1] + b[1] + (lo \div U16)
  IN <<hi % U16, lo % U16>>

\* u32::saturating_add on <<hi, lo>> pairs
saturating_add(a, b) ==
  LET lo == a[2] + b[2]
      hi == a[1] + b[1] + (lo \div U16)
  IN IF hi >= U16 THEN <<U16 - 1, U16 - 1>> ELSE <<hi, lo % U16>>

\* .fold(0u32, |acc, v| acc.saturating_add(v)) over the streams' bitrates
RECURSIVE FoldBitrate(_, _)
FoldBitrate(acc, streams) ==
  IF streams = <<>> THEN acc
  ELSE FoldBitrate(saturating_add(acc, Head(streams).bitrate_kbps), Tail(streams))

\* a derivation that looks at the relay session before the connection flag
derive_state_mode_relay_first(frame, relay_session) ==
  IF relay_session # None /\ Unwrap(relay_session).status = "active" THEN "IRL_ACTIVE"
  ELSE IF ~frame.obs_connected THEN "DEGRADED"
  ELSE "STUDIO"

derive_state_mode(frame, relay_session) ==
  IF ~frame.obs_connected THEN "DEGRADED"
  ELSE IF relay_session = None THEN "STUDIO"
  ELSE LET status == Unwrap(relay_session).status
       IN IF status = "provisioning" THEN "IRL_CONNECTING"
          ELSE IF status = "active" THEN "IRL_ACTIVE"
          ELSE IF status = "grace" THEN "IRL_GRACE"
          ELSE "STUDIO"

\* latency_ms.max(0.0).round() as u32, latency given in tenths of a millisecond
\* (round: half away from zero; the model's latencies stay far below 2^32)
RttMs(latency_tenths) ==
  LET clamped == IF latency_tenths < 0 THEN 0 ELSE latency_tenths
  IN (clamped + 5) \div 10

\* a relay block that passes the session's status string through
RelaySnapshotVerbatim(relay_session) ==
  IF relay_session = None
  THEN [status |-> "inactive", region |-> None, grace_remaining_seconds |-> 0]
  ELSE [status |-> Unwrap(relay_session).status,
        region |-> Unwrap(relay_session).region,
        grace_remaining_seconds |-> 0]

RelaySnapshotOf(relay_session) ==
  IF relay_session = None
  THEN [status |-> "inactive", region |-> None, grace_remaining_seconds |-> 0]
  ELSE LET session == Unwrap(relay_session)
       IN [status |-> IF session.status \in {"provisioning", "active", "grace"}
                      THEN session.status ELSE "inactive",
           region |-> session.region,
           grace_remaining_seconds |->
             IF session.timers = None THEN 0
             ELSE IF Unwrap(session.timers).grace_remaining_seconds = None THEN 0
             ELSE Unwrap(Unwrap(session.timers).grace_remaining_seconds)]

\* a mode in which a degraded state is shown as studio whatever the override
SnapshotModeStudioWhenDegraded(state_mode, mode_override) ==
  IF state_mode = "DEGRADED" THEN "studio"
  ELSE IF IsSome(mode_override) THEN Unwrap(mode_override)
  ELSE IF state_mode \in {"IRL_CONNECTING", "IRL_ACTIVE", "IRL_GRACE"} THEN "irl"
  ELSE "studio"

\* the snapshot's mode: derived from the state mode, then replaced by the
\* session's mode override if there is one
SnapshotModeOf(state_mode, mode_override) ==
  LET derived == IF state_mode \in {"IRL_CONNECTING", "IRL_ACTIVE", "IRL_GRACE"}
                 THEN "irl" ELSE "studio"
  IN IF IsSome(mode_override) THEN Unwrap(mode_override) ELSE derived

build_status_snapshot_with_overrides(frame, relay_session, overrides) ==
  LET state_mode == derive_state_mode(frame, relay_session)
      mode == SnapshotModeOf(state_mode, overrides.mode)
      health == IF ~frame.obs_connected THEN "offline"
                ELSE IF frame.health_pct < 50 THEN "degraded"
                ELSE "good"
  IN [mode |-> mode,
      state_mode |-> state_mode,
      health |-> health,
      bitrate_kbps |-> FoldBitrate(<<0, 0>>, frame.streams),
      rtt_ms |-> RttMs(frame.latency_tenths),
      override_enabled |-> IF IsSome(overrides.manual_override)
                           THEN Unwrap(overrides.manual_override) ELSE FALSE,
      relay |-> RelaySnapshotOf(relay_session),
      settings |-> IF has_any_settings(overrides)
                   THEN Some([k \in {x \in KnownSettingKeys : IsSome(overrides[x])}
                               |-> Unwrap(overrides[k])])
                   ELSE None]

\* ------------------------------------------------------------------- frames
\* make_envelope for an outbound frame (fresh id and timestamp left out)
make_envelope(message_type, priority, payload) ==
  [v |-> IPC_PROTOCOL_VERSION, message_type |-> message_type,
   priority |-> priority, payload |-> payload]

make_protocol_error(code, related_message_id) ==
  make_envelope("protocol_error", "high",
                [code |-> code, related_message_id |-> related_message_id])

UserNotice(priority, level, text, subject, request_id) ==
  make_envelope("user_notice", priority,
                [level |-> level, text |-> text, subject |-> subject, request_id |-> request_id])

\* an inbound envelope as read_frame returns it; the payload is still untyped
Inbound(v, id, message_type, payload) ==
  [v |-> v, id |-> id, message_type |-> message_type, payload |-> payload]

\* serde_json::from_value into the payload struct of `shape`: the payload must carry
\* the struct's fields, each of its type (HelloPayload.protocol_version is a u8);
\* RequestStatusPayload {} has no fields and decodes from any object
decode_payload(envelope, shape) ==
  \/ /\ envelope.payload.shape = shape
     /\ shape = "hello" => envelope.payload.protocol_version \in 0..255
  \/ shape = "request_status" /\ envelope.payload.shape # "not_an_object"

\* the payload struct each known message type is decoded into
KnownTypes ==
  {"hello", "ping", "request_status", "set_mode_request", "set_setting_request",
   "scene_switch_result", "obs_shutdown_notice"}

\* ------------------------------------------------------------- encoded sizes
\* a nonce too long to be written out in the model's alphabet, and its length in
\* bytes: the ping that carries it fits a frame, the pong that echoes it does not
HugeNonce == "nonce-of-65450-bytes"
HugeNonceLen == 65450

StrLen(s) == IF s = HugeNonce THEN HugeNonceLen ELSE Len(s)

\* MessagePack: a string of n bytes behind its fixstr / str8 / str16 / str32 header
StrBytes(n) ==
  n + (IF n < 32 THEN 1 ELSE IF n < 256 THEN 2 ELSE IF n < U16 THEN 3 ELSE 5)

\* an Envelope encoded with named fields: a map of six entries, each key a
\* fixstr, v a fixint, ts_unix_ms a uint64, the priority its lowercase name
EnvelopeBytes(id_len, message_type, priority, payload_bytes) ==
  1 + (StrBytes(1) + 1) + (StrBytes(2) + StrBytes(id_len))
    + (StrBytes(10) + 9) + (StrBytes(4) + StrBytes(Len(message_type)))
    + (StrBytes(8) + StrBytes(Len(priority))) + (StrBytes(7) + payload_bytes)

\* PingPayload and PongPayload: a map of one entry, "nonce"
NonceBytes(nonce) == 1 + StrBytes(5) + StrBytes(StrLen(nonce))

\* every other payload of the model is made of short strings, numbers and flags
SmallPayloadBytes == 1024

\* Uuid::new_v4().to_string(): the hyphenated form
UuidLen == 36

\* rmp_serde::to_vec_named(message).len()
EncodedLen(frame) ==
  EnvelopeBytes(UuidLen, frame.message_type, frame.priority,
                IF frame.message_type = "pong" THEN NonceBytes(frame.payload.nonce)
                ELSE SmallPayloadBytes)

\* the length prefix of an inbound ping as the peer encodes it (named fields, the
\* peer's own id)
PingLen(f) == EnvelopeBytes(Len(f.id), f.message_type, "normal", NonceBytes(f.payload.nonce))

\* read_frame: `if len > MAX_FRAME_SIZE { return Err(..) }`
FitsFrame(len) == len <= MAX_FRAME_SIZE

write_frame_unchecked(closed, frame) == ~closed

\* write_frame: the encoded envelope is measured before anything is written; Ok
\* iff it fits a frame and the channel takes it
write_frame(closed, frame) == FitsFrame(EncodedLen(frame)) /\ ~closed

\* ------------------------------------------------------------------- inputs
MsgIds == {"m1", "m2"}

\* SwitchScene commands; deadline_ms as the callers clamp it
\* (server/mod.rs: clamp(50, 5000))
Commands ==
  {[scene_name |-> "BRB", reason |-> "auto_failover", deadline_ms |-> 50],
   [scene_name |-> "Main", reason |-> "auto_failover", deadline_ms |-> 550]}

\* a hello of this version, of the next one, and of one that does not fit a u8
HelloPayloads == [shape : {"hello"}, protocol_version : {1, 2, 256}]

PingPayloads == [shape : {"ping"}, nonce : {"nonce-abc", "keepalive", HugeNonce}]

SetModePayloads == [shape : {"set_mode_request"}, mode : {"studio", "irl", "turbo"}]

SetSettingPayloads ==
  [shape : {"set_setting_request"}, key : {"manual_override", "alerts", "volume", "mode"},
   value : BOOLEAN]

\* request ids the peer can name: those it was sent, and one it made up (0)
ResultPayloads ==
  [shape : {"scene_switch_result"}, request_id : emitted \cup {0}, ok : {TRUE},
   error : {None}]
  \cup [shape : {"scene_switch_result"}, request_id : emitted \cup {0}, ok : {FALSE},
        error : {Some("scene not found")}]

ShutdownPayloads == [shape : {"obs_shutdown_notice"}, reason : {"exit"}]

EmptyObject == [shape |-> "request_status"]

NotAnObject == [shape |-> "not_an_object"]

\* ------------------------------------------------------------------ debug mirror
DebugStatusDefault ==
  [session_connected |-> FALSE, pending_switch_count |-> 0,
   last_switch_request |-> None, last_switch_result |-> None, last_notice |-> None]

Notice(text, subject, request_id) ==
  [text |-> text, subject |-> subject, request_id |-> request_id]

\* ------------------------------------------------------------------- initial
TelemetryDefault ==
  [obs_connected |-> FALSE, health_pct |-> 0, latency_tenths |-> 0, streams |-> <<>>]

\* the streams' bitrates: small, with a carry out of the low half, above 2^31,
\* and u32::MAX
Bitrates == {<<0, 2222>>, <<0, U16 - 1>>, <<U16 \div 2, 1>>, <<U16 - 1, U16 - 1>>}

StreamLists == UNION {[1..n -> [bitrate_kbps : Bitrates]] : n \in 0..MaxStreams}

\* telemetry frames with every list of streams
BitrateFrames ==
  [obs_connected : BOOLEAN, health_pct : {80}, latency_tenths : {420},
   streams : StreamLists]

\* telemetry frames connected and not, healthy and not
RelayFrames ==
  [obs_connected : BOOLEAN, health_pct : {40, 80}, latency_tenths : {420},
   streams : {<<>>, <<[bitrate_kbps |-> <<0, 2222>>]>>}]

\* the relay cell: empty, or a session of a status the snapshot knows or not,
\* with and without region, timers and remaining grace
RelaySessions ==
  {None} \cup
  {Some(r) : r \in [status : {"provisioning", "active", "grace", "stopped", "ACTIVE"},
                    region : {None, Some("eu-west")},
                    timers : {None, Some([grace_remaining_seconds |-> None]),
                              Some([grace_remaining_seconds |-> Some(30)])}]}

\* the state in which run_named_pipe_server calls handle_session_io: the mirror
\* marked connected, a fresh receiver, the session's locals as constructed
InitFrom(inbound, frames, relay_sessions) ==
  /\ now = 0
  /\ core_cmd_rx = <<>>
  /\ evt_closed = FALSE
  /\ telemetry \in frames
  /\ relay_cell \in relay_sessions
  /\ next_uuid = 1
  /\ session_no = 1
  /\ cmd_reader = EmptyReader
  /\ pc = "drain"
  /\ result = "running"
  /\ handshake_complete = FALSE
  /\ last_ping_at = 0
  /\ last_status_push_at = 0
  /\ read_started_at = 0
  /\ pending_switches = EmptyMap
  /\ session_overrides = SessionOverridesDefault
  /\ protocol_errors = <<>>
  /\ expired_ids = <<>>
  /\ expired = None
  /\ debug_status = [DebugStatusDefault EXCEPT !.session_connected = TRUE]
  /\ out = <<>>
  /\ inp = None
  /\ sent = 0
  /\ drained = {}
  /\ counted = <<>>
  /\ inbound_left = inbound
  /\ emitted = {}
  /\ fired = {}
  /\ acked = {}
  /\ terminal = [r \in 1..MaxRequests |-> <<>>]
  /\ last_snapshot_at = None
  /\ last_reply_at = None

\* a session that starts with the default telemetry frame and no relay session
InitWith(inbound) == InitFrom(inbound, {TelemetryDefault}, {None})

Init == InitWith(MaxInbound)

\* a peer that sends one frame fewer
InitFair == InitWith(MaxInbound - 1)

\* -------------------------------------------------------------- environment
\* the clock advances by dt.  Time passes at the loop's suspension points: while
\* it waits in timeout(read_frame) and while a write_frame is blocked (a step that
\* writes reads the clock after its write, so the delay is taken before the step).
\* prompt: writes complete at once and the poll timer fires on time, so time
\* passes only in the wait for an inbound frame, at most READ_POLL_TIMEOUT.
Tick(dt, prompt, horizon) ==
  /\ pc # "done"
  /\ now + dt <= horizon
  /\ \/ pc = "read"
     \/ pc = "drain" /\ core_cmd_rx # <<>> /\ handshake_complete
     \/ pc = "sweep_write"
     \/ pc = "push" /\ handshake_complete
                    /\ now - last_status_push_at >= STATUS_PUSH_INTERVAL
     \/ pc = "heartbeat" /\ handshake_complete
                         /\ now - last_ping_at >= HEARTBEAT_TIMEOUT
  /\ prompt => pc = "read" /\ now + dt - read_started_at <= READ_POLL_TIMEOUT
  /\ now' = now + dt
  /\ UNCHANGED <<core_cmd_rx, evt_closed, telemetry, relay_cell, next_uuid, session_no,
                 cmd_reader>>
  /\ UNCHANGED <<locals, obsv, hist>>

\* a command as it waits on a session's receiver; epoch records which session's
\* receiver (subscribe gives every session its own) the send was delivered to
Queued(cmd) ==
  [scene_name |-> cmd.scene_name, reason |-> cmd.reason, deadline_ms |-> cmd.deadline_ms,
   epoch |-> session_no]

\* a producer sends a command on the fan-in bus (core_cmd_tx.send).  The session
\* looks at the bus only in try_recv: a send that lands during another step is
\* found by the same try_recv as one that lands during the read next to it.
ProducerSendWithin(budget, queue) ==
  /\ pc = "read"
  /\ sent < budget
  /\ Len(core_cmd_rx) < queue
  /\ \E cmd \in Commands : core_cmd_rx' = Append(core_cmd_rx, Queued(cmd))
  /\ sent' = sent + 1
  /\ UNCHANGED <<now, evt_closed, telemetry, relay_cell, next_uuid, session_no,
                 cmd_reader>>
  /\ UNCHANGED <<locals, obsv>>
  /\ UNCHANGED <<drained, counted, inbound_left, emitted, fired, acked, terminal,
                 last_snapshot_at, last_reply_at>>

\* producers that leave at most MaxQueue commands waiting on the bus
ProducerSendUpTo(budget) == ProducerSendWithin(budget, MaxQueue)

ProducerSend == ProducerSendUpTo(MaxRequests)

\* producers that send in bursts: one more command may wait on the bus
ProducerSendBurst == ProducerSendWithin(MaxRequests, MaxQueue + 1)

\* producers that send one command fewer
ProducerSendFair == ProducerSendUpTo(MaxRequests - 1)

\* the peer closes its end of the evt channel, while the loop waits for it
PeerCloseEvt ==
  /\ pc = "read"
  /\ ~evt_closed
  /\ evt_closed' = TRUE
  /\ UNCHANGED <<now, core_cmd_rx, telemetry, relay_cell, next_uuid, session_no,
                 cmd_reader>>
  /\ UNCHANGED <<locals, obsv, hist>>

\* ------------------------------------------------------------ command intake
\* one turn of `while let Ok(cmd) = core_cmd_rx.try_recv()`
DrainCommand ==
  /\ pc = "drain"
  /\ core_cmd_rx # <<>>
  /\ core_cmd_rx' = Tail(core_cmd_rx)
  /\ inp' = None
  /\ LET cmd == Head(core_cmd_rx)
         request_id == next_uuid
         evt == make_envelope("switch_scene", "critical",
                  [request_id |-> request_id, scene_name |-> cmd.scene_name,
                   reason |-> cmd.reason, deadline_ms |-> cmd.deadline_ms])
     IN IF ~handshake_complete
        THEN /\ out' = <<>>
             /\ UNCHANGED <<next_uuid, pc, result, pending_switches, debug_status,
                            emitted>>
        ELSE /\ next_uuid' = next_uuid + 1
             /\ IF write_frame(evt_closed, evt)
                THEN /\ out' = <<evt>>
                     /\ pending_switches' =
                          MapInsert(pending_switches, request_id,
                                    [scene_name |-> cmd.scene_name,
                                     deadline_at |-> now + cmd.deadline_ms])
                     /\ debug_status' =
                          [debug_status EXCEPT
                             !.pending_switch_count = Cardinality(DOMAIN pending_switches'),
                             !.last_switch_request = Some(evt.payload)]
                     /\ emitted' = emitted \cup {request_id}
                     /\ UNCHANGED <<pc, result>>
                ELSE /\ out' = <<>>
                     /\ pc' = "done"
                     /\ result' = "err"
                     /\ UNCHANGED <<pending_switches, debug_status, emitted>>
  /\ UNCHANGED <<now, evt_closed, telemetry, relay_cell, session_no,
                 cmd_reader>>
  /\ UNCHANGED <<handshake_complete, last_ping_at, last_status_push_at, read_started_at,
                 session_overrides, protocol_errors, expired_ids, expired>>
  /\ drained' = drained \cup (emitted' \ emitted)
  /\ UNCHANGED <<sent, counted, inbound_left, fired, acked, terminal, last_snapshot_at,
                 last_reply_at>>

\* try_recv finds the bus empty: the loop goes on to the sweep
DrainDone ==
  /\ pc = "drain"
  /\ core_cmd_rx = <<>>
  /\ pc' = "sweep"
  /\ out' = <<>>
  /\ inp' = None
  /\ UNCHANGED envv
  /\ UNCHANGED <<result, handshake_complete, last_ping_at, last_status_push_at,
                 read_started_at, pending_switches, session_overrides, protocol_errors,
                 expired_ids, expired>>
  /\ UNCHANGED debug_status
  /\ UNCHANGED hist

\* ------------------------------------------------------ pending-timeout sweep
\* the ids the sweep's filter_map keeps at instant t
\* a sweep that treats every pending request as expired
ExpiredAtAll(pending, t) == DOMAIN pending

ExpiredAt(pending, t) == {id \in DOMAIN pending : t >= pending[id].deadline_at}

\* `if !pending_switches.is_empty()`: collect expired_ids in the map's iteration order
SweepCollect ==
  /\ pc = "sweep"
  /\ IF pending_switches = EmptyMap
     THEN /\ pc' = "push"
          /\ expired_ids' = <<>>
     ELSE \E order \in Orderings(ExpiredAt(pending_switches, now)) :
            /\ expired_ids' = order
            /\ pc' = IF order = <<>> THEN "push" ELSE "sweep_next"
  /\ out' = <<>>
  /\ inp' = None
  /\ UNCHANGED envv
  /\ UNCHANGED <<result, handshake_complete, last_ping_at, last_status_push_at,
                 read_started_at, pending_switches, session_overrides, protocol_errors,
                 expired>>
  /\ UNCHANGED debug_status
  /\ UNCHANGED hist

\* `for id in expired_ids { if let Some(expired) = pending_switches.remove(&id)`
SweepRemove ==
  /\ pc = "sweep_next"
  /\ LET id == Head(expired_ids)
     IN /\ expired_ids' = Tail(expired_ids)
        /\ IF id \in DOMAIN pending_switches
           THEN /\ pending_switches' = MapRemove(pending_switches, id)
                /\ expired' = Some([request_id |-> id,
                                    scene_name |-> pending_switches[id].scene_name,
                                    overdue |-> now >= pending_switches[id].deadline_at])
                /\ fired' = fired \cup {id}
                /\ pc' = "sweep_write"
           ELSE /\ pc' = IF expired_ids' = <<>> THEN "push" ELSE "sweep_next"
                /\ UNCHANGED <<expired, pending_switches, fired>>
  /\ out' = <<>>
  /\ inp' = None
  /\ UNCHANGED envv
  /\ UNCHANGED <<result, handshake_complete, last_ping_at, last_status_push_at,
                 read_started_at, session_overrides, protocol_errors>>
  /\ UNCHANGED debug_status
  /\ UNCHANGED <<sent, drained, counted, inbound_left, emitted, acked, terminal,
                 last_snapshot_at, last_reply_at>>

\* the timeout notice (write errors ignored) and the mirror update for the removed entry
SweepNotify ==
  /\ pc = "sweep_write"
  /\ LET e == Unwrap(expired)
         notice == UserNotice("high", "warn", "Scene switch timed out",
                              e.scene_name, e.request_id)
     IN /\ out' = IF write_frame(evt_closed, notice) THEN <<notice>> ELSE <<>>
        /\ debug_status' =
             [debug_status EXCEPT
                !.pending_switch_count = Cardinality(DOMAIN pending_switches),
                !.last_switch_result =
                   Some([request_id |-> e.request_id, status |-> "timeout", error |-> None]),
                !.last_notice =
                   Some(Notice("Scene switch timed out", e.scene_name, e.request_id))]
        /\ terminal' = [terminal EXCEPT ![e.request_id] =
                           Append(@, [status |-> "timeout", overdue |-> e.overdue])]
  /\ expired' = None
  /\ pc' = IF expired_ids = <<>> THEN "push" ELSE "sweep_next"
  /\ inp' = None
  /\ UNCHANGED envv
  /\ UNCHANGED <<result, handshake_complete, last_ping_at, last_status_push_at,
                 read_started_at, pending_switches, session_overrides, protocol_errors,
                 expired_ids>>
  /\ UNCHANGED <<sent, drained, counted, inbound_left, emitted, fired, acked,
                 last_snapshot_at, last_reply_at>>

\* ------------------------------------------------------- periodic status push
StatusSnapshot(priority) ==
  make_envelope("status_snapshot", priority,
                build_status_snapshot_with_overrides(telemetry, relay_cell, session_overrides))

\* a push that is due after two intervals
PushDueLate == handshake_complete /\ now - last_status_push_at >= 2 * STATUS_PUSH_INTERVAL

\* `handshake_complete && last_status_push_at.elapsed() >= STATUS_PUSH_INTERVAL`
PushDue == handshake_complete /\ now - last_status_push_at >= STATUS_PUSH_INTERVAL

PushStatus ==
  /\ pc = "push"
  /\ inp' = None
  /\ IF PushDue
     THEN IF write_frame(evt_closed, StatusSnapshot("normal"))
          THEN /\ out' = <<StatusSnapshot("normal")>>
               /\ last_status_push_at' = now
               /\ last_snapshot_at' = Some(now)
               /\ pc' = "heartbeat"
               /\ UNCHANGED result
          ELSE /\ out' = <<>>
               /\ pc' = "done"
               /\ result' = "err"
               /\ UNCHANGED <<last_status_push_at, last_snapshot_at>>
     ELSE /\ out' = <<>>
          /\ pc' = "heartbeat"
          /\ UNCHANGED <<result, last_status_push_at, last_snapshot_at>>
  /\ UNCHANGED envv
  /\ UNCHANGED <<handshake_complete, last_ping_at, read_started_at, pending_switches,
                 session_overrides, protocol_errors, expired_ids, expired>>
  /\ UNCHANGED debug_status
  /\ UNCHANGED <<sent, drained, counted, inbound_left, emitted, fired, acked, terminal,
                 last_reply_at>>

\* --------------------------------------------------------- heartbeat watchdog
\* a watchdog that allows one more poll slice
HeartbeatExpiredLate ==
  handshake_complete /\ now - last_ping_at >= HEARTBEAT_TIMEOUT + READ_POLL_TIMEOUT

\* `handshake_complete && last_ping_at.elapsed() >= HEARTBEAT_TIMEOUT`
HeartbeatExpired == handshake_complete /\ now - last_ping_at >= HEARTBEAT_TIMEOUT

Heartbeat ==
  /\ pc = "heartbeat"
  /\ inp' = None
  /\ IF HeartbeatExpired
     THEN LET protocol_error == make_protocol_error("timeout", None)
          IN /\ out' = IF write_frame(evt_closed, protocol_error)
                       THEN <<protocol_error>> ELSE <<>>
             /\ debug_status' =
                  [debug_status EXCEPT
                     !.last_notice = Some(Notice("Heartbeat timeout (missing ping)", "", 0))]
             /\ pc' = "done"
             /\ result' = "ok"
             /\ UNCHANGED read_started_at
     ELSE /\ out' = <<>>
          /\ pc' = "read"
          /\ read_started_at' = now
          /\ UNCHANGED <<result, debug_status>>
  /\ UNCHANGED envv
  /\ UNCHANGED <<handshake_complete, last_ping_at, last_status_push_at, pending_switches,
                 session_overrides, protocol_errors, expired_ids, expired>>
  /\ drained' = {}
  /\ UNCHANGED <<sent, counted, inbound_left, emitted, fired, acked, terminal,
                 last_snapshot_at, last_reply_at>>

\* ---------------------------------------------------------------- inbound read
\* the locals and the mirror a dispatch arm works on
Cur ==
  [pc |-> "drain", result |-> result, handshake_complete |-> handshake_complete,
   last_ping_at |-> last_ping_at, last_status_push_at |-> last_status_push_at,
   pending_switches |-> pending_switches, session_overrides |-> session_overrides,
   protocol_errors |-> protocol_errors, debug_status |-> debug_status, out |-> <<>>,
   acked |-> acked, terminal |-> terminal, last_snapshot_at |-> last_snapshot_at,
   last_reply_at |-> last_reply_at, counted |-> counted]

\* `return Ok(())` / `return Err(..)`
Returned(c, res) == [c EXCEPT !.pc = "done", !.result = res]

\* `if protocol_errors.record_and_should_reset() { return Ok(()) }` else go on looping
Counted(c) ==
  LET r == record_and_should_reset(c.protocol_errors, now)
      c2 == [c EXCEPT !.protocol_errors = r.recent, !.counted = Append(@, now)]
  IN IF r.reset THEN Returned(c2, "ok") ELSE c2

\* `let _ = write_frame(evt_writer, &frame).await`
WriteIgnore(c, frame) ==
  IF write_frame(evt_closed, frame) THEN [c EXCEPT !.out = Append(@, frame)] ELSE c

SetNotice(c, text, subject) ==
  [c EXCEPT !.debug_status.last_notice = Some(Notice(text, subject, 0))]

\* the step of the loop that ends with the state c after reading `got`
FinishRead(got, c) ==
  /\ pc = "read"
  /\ inp' = Some(got)
  /\ pc' = c.pc
  /\ result' = c.result
  /\ handshake_complete' = c.handshake_complete
  /\ last_ping_at' = c.last_ping_at
  /\ last_status_push_at' = c.last_status_push_at
  /\ pending_switches' = c.pending_switches
  /\ session_overrides' = c.session_overrides
  /\ protocol_errors' = c.protocol_errors
  /\ debug_status' = c.debug_status
  /\ out' = c.out
  /\ acked' = c.acked
  /\ terminal' = c.terminal
  /\ last_snapshot_at' = c.last_snapshot_at
  /\ last_reply_at' = c.last_reply_at
  /\ read_started_at' = 0
  /\ UNCHANGED <<expired_ids, expired>>
  /\ counted' = c.counted
  /\ UNCHANGED <<sent, drained, emitted, fired>>

\* the same when the frame reaches the session whole, in one read
Finish(got, c) ==
  /\ inbound_left > 0
  /\ inbound_left' = inbound_left - 1
  /\ FinishRead(got, c)
  /\ UNCHANGED envv

\* `Err(_) => continue`: the poll slice ended with no frame.  timeout() polls
\* read_frame before its timer, so bytes that are there win; the read_frame
\* future is dropped, and with it what it had taken from the pipe
ReadTimeout ==
  /\ pc = "read"
  /\ now - read_started_at >= READ_POLL_TIMEOUT
  /\ ~CanRead
  /\ pc' = "drain"
  /\ read_started_at' = 0
  /\ out' = <<>>
  /\ inp' = None
  /\ cmd_reader' = [cmd_reader EXCEPT !.partial = None]
  /\ UNCHANGED <<now, core_cmd_rx, evt_closed, telemetry, relay_cell, next_uuid, session_no>>
  /\ UNCHANGED <<result, handshake_complete, last_ping_at, last_status_push_at,
                 pending_switches, session_overrides, protocol_errors,
                 expired_ids, expired>>
  /\ UNCHANGED debug_status
  /\ UNCHANGED hist

\* read_frame fails with InvalidData: "frame too large" or "decode failed"
FrameErrorArm(code) ==
  Counted(SetNotice(WriteIgnore(Cur, make_protocol_error(code, None)),
                    "IPC decode/frame protocol error", ""))

ReadFrameError ==
  \E code \in {"frame_too_large", "decode_failed"} :
    Finish([error |-> code], FrameErrorArm(code))

\* `msg.contains("frame too large")`; a message is its fixed text and the text
\* of the peer that the decoder's error repeats
FrameErrorCode(msg) ==
  IF msg.text = "frame too large" \/ msg.echo = "frame too large"
  THEN "frame_too_large" ELSE "decode_failed"

\* read_u32_le, the limit check, read_exact and rmp_serde::from_slice on what
\* the pipe holds: the reader afterwards, whether read_frame returned, and what.
\* (The peer of the model writes a body in one piece, so a body is never taken
\* in parts.)
read_frame(reader) ==
  LET fresh == reader.partial = None
      len == IF fresh THEN Head(reader.unread).value ELSE Unwrap(reader.partial)
      u == IF fresh THEN DropBytes(reader.unread, 4) ELSE reader.unread
  IN IF len > MAX_FRAME_SIZE
     THEN [done |-> TRUE, ok |-> FALSE, len |-> len, frame |-> None,
           msg |-> [text |-> "frame too large", echo |-> ""],
           reader |-> [reader EXCEPT !.unread = u, !.partial = None]]
     ELSE IF Bytes(u) < len
     THEN [done |-> FALSE, ok |-> FALSE, len |-> len, frame |-> None,
           msg |-> [text |-> "", echo |-> ""],
           reader |-> [reader EXCEPT !.unread = u, !.partial = Some(len)]]
     ELSE LET whole == len > 0 /\ Head(u).n = len
              after == [reader EXCEPT !.unread = DropBytes(u, len), !.partial = None]
          IN IF whole /\ Head(u).kind = "body"
             THEN [done |-> TRUE, ok |-> TRUE, len |-> len, frame |-> Head(u).frame,
                   msg |-> [text |-> "", echo |-> ""], reader |-> after]
             ELSE [done |-> TRUE, ok |-> FALSE, len |-> len, frame |-> None,
                   msg |-> [text |-> "decode failed",
                            echo |-> IF whole THEN Head(u).echo ELSE ""],
                   reader |-> after]

\* a transport error answered like a frame error: a protocol_error is written and
\* the error goes to the tracker
ReadTransportErrorAnswered ==
  LET e == make_protocol_error("decode_failed", None)
      r == record_and_should_reset(protocol_errors, now)
  IN /\ pc = "read"
     /\ pc' = "done"
     /\ result' = "err"
     /\ out' = IF write_frame(evt_closed, e) THEN <<e>> ELSE <<>>
     /\ inp' = Some([error |-> "io"])
     /\ read_started_at' = 0
     /\ protocol_errors' = r.recent
     /\ counted' = Append(counted, now)
     /\ UNCHANGED envv
     /\ UNCHANGED <<handshake_complete, last_ping_at, last_status_push_at,
                    pending_switches, session_overrides, expired_ids, expired>>
     /\ UNCHANGED debug_status
     /\ UNCHANGED <<sent, drained, inbound_left, emitted, fired, acked, terminal,
                    last_snapshot_at, last_reply_at>>

\* read_frame fails with any other io::Error (end of stream, broken pipe)
ReadTransportError ==
  /\ pc = "read"
  /\ pc' = "done"
  /\ result' = "err"
  /\ out' = <<>>
  /\ inp' = Some([error |-> "io"])
  /\ read_started_at' = 0
  /\ UNCHANGED envv
  /\ UNCHANGED <<handshake_complete, last_ping_at, last_status_push_at,
                 pending_switches, session_overrides, protocol_errors, expired_ids, expired>>
  /\ UNCHANGED debug_status
  /\ UNCHANGED hist

\* a version mismatch answered like a payload error: counted, the session goes on
VersionMismatchArmCounted(f) ==
  Counted([Cur EXCEPT !.out = <<make_protocol_error("invalid_payload", Some(f.id))>>])

\* `if incoming.v != IPC_PROTOCOL_VERSION`
VersionMismatchArm(f) ==
  LET notice == UserNotice("high", "error", "IPC protocol version mismatch", "", 0)
  IN IF write_frame(evt_closed, notice)
     THEN Returned(SetNotice([Cur EXCEPT !.out = <<notice>>],
                             "IPC envelope version mismatch", ""), "ok")
     ELSE Returned(Cur, "err")

\* a payload error that is answered but not handed to the tracker
PayloadErrorArmUncounted(f) ==
  [Cur EXCEPT !.out = <<make_protocol_error("invalid_payload", Some(f.id))>>]

\* a known type whose payload does not decode: emit_protocol_error_for_payload, count
PayloadErrorArm(f) ==
  LET e == make_protocol_error("invalid_payload", Some(f.id))
  IN IF write_frame(evt_closed, e)
     THEN Counted([Cur EXCEPT !.out = <<e>>])
     ELSE Returned(Cur, "err")

\* a hello arm that starts a full push interval with the handshake
HelloArmWaits(f) ==
  LET ack == make_envelope("hello_ack", "high",
               [protocol_version |-> IPC_PROTOCOL_VERSION,
                capabilities |-> <<"state_machine", "aegis", "ipc_stub">>])
  IN IF f.payload.protocol_version # IPC_PROTOCOL_VERSION
     THEN Returned(SetNotice([Cur EXCEPT !.out =
                                <<UserNotice("high", "error", "Protocol mismatch", "", 0)>>],
                             "IPC protocol mismatch", ""), "ok")
     ELSE [Cur EXCEPT !.out = <<ack>>,
                      !.handshake_complete = TRUE,
                      !.last_ping_at = now,
                      !.last_status_push_at = now,
                      !.last_snapshot_at = None]

\* a hello arm that answers a version mismatch with the notice and goes on
HelloArmTolerant(f) ==
  LET ack == make_envelope("hello_ack", "high",
               [protocol_version |-> IPC_PROTOCOL_VERSION,
                capabilities |-> <<"state_machine", "aegis", "ipc_stub">>])
  IN IF f.payload.protocol_version # IPC_PROTOCOL_VERSION
     THEN SetNotice([Cur EXCEPT !.out =
                       <<UserNotice("high", "error", "Protocol mismatch", "", 0)>>],
                    "IPC protocol mismatch", "")
     ELSE [Cur EXCEPT !.out = <<ack>>,
                      !.handshake_complete = TRUE,
                      !.last_ping_at = now,
                      !.last_status_push_at = now - STATUS_PUSH_INTERVAL,
                      !.last_snapshot_at = None]

\* "hello"
HelloArm(f) ==
  IF f.payload.protocol_version # IPC_PROTOCOL_VERSION
  THEN LET notice == UserNotice("high", "error", "Protocol mismatch", "", 0)
       IN IF write_frame(evt_closed, notice)
          THEN Returned(SetNotice([Cur EXCEPT !.out = <<notice>>],
                                  "IPC protocol mismatch", ""), "ok")
          ELSE Returned(Cur, "err")
  ELSE LET ack == make_envelope("hello_ack", "high",
                    [protocol_version |-> IPC_PROTOCOL_VERSION,
                     capabilities |-> <<"state_machine", "aegis", "ipc_stub">>])
       IN IF write_frame(evt_closed, ack)
          THEN [Cur EXCEPT !.out = <<ack>>,
                           !.handshake_complete = TRUE,
                           !.last_ping_at = now,
                           !.last_status_push_at = now - STATUS_PUSH_INTERVAL,
                           !.last_snapshot_at = None]
          ELSE Returned(Cur, "err")

\* "ping"
PingArm(f) ==
  LET pong == make_envelope("pong", "normal", [nonce |-> f.payload.nonce])
  IN IF write_frame(evt_closed, pong)
     THEN [Cur EXCEPT !.out = <<pong>>, !.last_ping_at = now]
     ELSE Returned(Cur, "err")

\* "request_status"
RequestStatusArm(f) ==
  IF write_frame(evt_closed, StatusSnapshot("high"))
  THEN [Cur EXCEPT !.out = <<StatusSnapshot("high")>>,
                   !.last_status_push_at = now,
                   !.last_snapshot_at = Some(now),
                   !.last_reply_at = IF handshake_complete THEN Some(now) ELSE @]
  ELSE Returned(Cur, "err")

\* a change whose snapshot is built before the override is stored
OverrideChangedTailStale(ov, text, subject) ==
  LET notice == UserNotice("normal", "info", text, subject, 0)
      snapshot == make_envelope("status_snapshot", "high",
                    build_status_snapshot_with_overrides(telemetry, relay_cell,
                                                         session_overrides))
      c1 == WriteIgnore([Cur EXCEPT !.session_overrides = ov], notice)
  IN IF write_frame(evt_closed, snapshot)
     THEN [c1 EXCEPT !.out = Append(@, snapshot),
                     !.last_status_push_at = now,
                     !.last_snapshot_at = Some(now)]
     ELSE Returned(c1, "err")

\* the tail shared by set_mode_request and set_setting_request once the override
\* changed: notice (write errors ignored), then a high-priority snapshot built
\* from the new overrides
OverrideChangedTail(ov, text, subject) ==
  LET notice == UserNotice("normal", "info", text, subject, 0)
      snapshot == make_envelope("status_snapshot", "high",
                    build_status_snapshot_with_overrides(telemetry, relay_cell, ov))
      c1 == WriteIgnore([Cur EXCEPT !.session_overrides = ov], notice)
  IN IF write_frame(evt_closed, snapshot)
     THEN [c1 EXCEPT !.out = Append(@, snapshot),
                     !.last_status_push_at = now,
                     !.last_snapshot_at = Some(now)]
     ELSE Returned(c1, "err")

\* a set_mode_request arm that hands the invalid-mode error to the tracker
SetModeArmCounted(f) ==
  IF f.payload.mode \notin {"studio", "irl"}
  THEN Counted([Cur EXCEPT !.out = <<make_protocol_error("invalid_payload", Some(f.id))>>])
  ELSE LET r == set_mode_if_changed(session_overrides, f.payload.mode)
       IN IF ~r.changed
          THEN Cur
          ELSE OverrideChangedTail(r.ov, "Dock mode override set", f.payload.mode)

\* "set_mode_request"
SetModeArm(f) ==
  IF f.payload.mode \notin {"studio", "irl"}
  THEN LET e == make_protocol_error("invalid_payload", Some(f.id))
       IN IF write_frame(evt_closed, e)
          THEN [Cur EXCEPT !.out = <<e>>]
          ELSE Returned(Cur, "err")
  ELSE LET r == set_mode_if_changed(session_overrides, f.payload.mode)
       IN IF ~r.changed
          THEN Cur
          ELSE OverrideChangedTail(r.ov, "Dock mode override set", f.payload.mode)

\* "set_setting_request"
SetSettingArm(f) ==
  LET r == apply_setting_if_changed(session_overrides, f.payload.key, f.payload.value)
  IN IF ~r.ok
     THEN LET e == make_protocol_error("invalid_payload", Some(f.id))
          IN IF write_frame(evt_closed, e)
             THEN [Cur EXCEPT !.out = <<e>>]
             ELSE Returned(Cur, "err")
     ELSE IF ~r.changed
          THEN Cur
          ELSE OverrideChangedTail(r.ov, "Dock setting set", f.payload.key)

\* a scene_switch_result arm that honours an ack only before the deadline
SceneSwitchResultArmChecksDeadline(f) ==
  LET id == f.payload.request_id
      seen == [Cur EXCEPT !.acked = @ \cup {id}]
  IN IF id \notin DOMAIN pending_switches \/ now >= pending_switches[id].deadline_at
     THEN [seen EXCEPT
             !.debug_status.last_switch_result =
                Some([request_id |-> id, status |-> "unknown_request",
                      error |-> f.payload.error])]
     ELSE [seen EXCEPT
             !.pending_switches = MapRemove(pending_switches, id),
             !.debug_status.last_switch_result =
                Some([request_id |-> id, status |-> IF f.payload.ok THEN "ok" ELSE "error",
                      error |-> f.payload.error]),
             !.terminal[id] = Append(@, [status |-> IF f.payload.ok THEN "ok" ELSE "error",
                                         overdue |-> FALSE])]

\* a scene_switch_result arm that treats a result for an unknown request as a
\* protocol error
SceneSwitchResultArmCounted(f) ==
  LET id == f.payload.request_id
      seen == [Cur EXCEPT !.acked = @ \cup {id}]
  IN IF id \notin DOMAIN pending_switches
     THEN Counted([seen EXCEPT
                     !.debug_status.last_switch_result =
                        Some([request_id |-> id, status |-> "unknown_request",
                              error |-> f.payload.error])])
     ELSE LET status == IF f.payload.ok THEN "ok" ELSE "error"
              left == MapRemove(pending_switches, id)
          IN [seen EXCEPT
                !.pending_switches = left,
                !.debug_status.pending_switch_count = Cardinality(DOMAIN left),
                !.debug_status.last_switch_result =
                   Some([request_id |-> id, status |-> status, error |-> f.payload.error]),
                !.terminal[id] =
                   Append(@, [status |-> status,
                              overdue |-> now >= pending_switches[id].deadline_at])]

\* "scene_switch_result"
SceneSwitchResultArm(f) ==
  LET id == f.payload.request_id
      seen == [Cur EXCEPT !.acked = @ \cup {id}]
  IN IF id \notin DOMAIN pending_switches
     THEN [seen EXCEPT
             !.debug_status.last_switch_result =
                Some([request_id |-> id, status |-> "unknown_request",
                      error |-> f.payload.error]),
             !.debug_status.last_notice =
                Some(Notice("scene_switch_result for unknown request", "", 0))]
     ELSE LET status == IF f.payload.ok THEN "ok" ELSE "error"
              left == MapRemove(pending_switches, id)
          IN [seen EXCEPT
                !.pending_switches = left,
                !.debug_status.pending_switch_count = Cardinality(DOMAIN left),
                !.debug_status.last_switch_result =
                   Some([request_id |-> id, status |-> status, error |-> f.payload.error]),
                !.terminal[id] =
                   Append(@, [status |-> status,
                              overdue |-> now >= pending_switches[id].deadline_at])]

\* a shutdown arm that tells the peer before it returns
ObsShutdownArmAnswered(f) ==
  Returned(WriteIgnore(SetNotice(Cur, "obs shutdown notice", f.payload.reason),
                       UserNotice("normal", "info", "obs shutdown notice",
                                  f.payload.reason, 0)),
           "ok")

\* "obs_shutdown_notice"
ObsShutdownArm(f) ==
  Returned(SetNotice(Cur, "obs shutdown notice", f.payload.reason), "ok")

\* `other =>`
UnknownTypeArm(f) ==
  LET e == make_protocol_error("unknown_type", Some(f.id))
  IN IF write_frame(evt_closed, e)
     THEN Counted(SetNotice([Cur EXCEPT !.out = <<e>>],
                            "Unsupported IPC command", f.message_type))
     ELSE Returned(Cur, "err")

\* the body of the loop after read_frame returned the envelope f
Dispatch(f) ==
  IF f.v # IPC_PROTOCOL_VERSION THEN VersionMismatchArm(f)
  ELSE IF f.message_type \notin KnownTypes THEN UnknownTypeArm(f)
  ELSE IF ~decode_payload(f, f.message_type) THEN PayloadErrorArm(f)
  ELSE IF f.message_type = "hello" THEN HelloArm(f)
  ELSE IF f.message_type = "ping" THEN PingArm(f)
  ELSE IF f.message_type = "request_status" THEN RequestStatusArm(f)
  ELSE IF f.message_type = "set_mode_request" THEN SetModeArm(f)
  ELSE IF f.message_type = "set_setting_request" THEN SetSettingArm(f)
  ELSE IF f.message_type = "scene_switch_result" THEN SceneSwitchResultArm(f)
  ELSE ObsShutdownArm(f)

\* ------------------------------------------------------------ inbound frames
HelloFrames == {Inbound(IPC_PROTOCOL_VERSION, "m1", "hello", p) : p \in HelloPayloads}

PingFrames == {Inbound(IPC_PROTOCOL_VERSION, "m1", "ping", p) : p \in PingPayloads}

RequestStatusFrames ==
  {Inbound(IPC_PROTOCOL_VERSION, "m1", "request_status", p) :
     p \in {EmptyObject, [shape |-> "ping", nonce |-> "keepalive"]}}

SetModeFrames ==
  {Inbound(IPC_PROTOCOL_VERSION, id, "set_mode_request", p) :
     id \in MsgIds, p \in SetModePayloads}

SetSettingFrames ==
  {Inbound(IPC_PROTOCOL_VERSION, id, "set_setting_request", p) :
     id \in MsgIds, p \in SetSettingPayloads}

SceneSwitchResultFrames ==
  {Inbound(IPC_PROTOCOL_VERSION, "m1", "scene_switch_result", p) : p \in ResultPayloads}

ObsShutdownFrames ==
  {Inbound(IPC_PROTOCOL_VERSION, "m1", "obs_shutdown_notice", p) : p \in ShutdownPayloads}

UnknownTypeFrames ==
  {Inbound(IPC_PROTOCOL_VERSION, id, "bad_cmd", EmptyObject) : id \in MsgIds}

\* known types with a payload their struct does not decode from
MalformedFrames ==
  {Inbound(IPC_PROTOCOL_VERSION, id, t, p) :
     id \in MsgIds, t \in KnownTypes, p \in {EmptyObject, NotAnObject}}
  \ {Inbound(IPC_PROTOCOL_VERSION, id, "request_status", EmptyObject) : id \in MsgIds}

\* envelopes of another version, of a known and of an unknown type
BadVersionFrames ==
  {Inbound(v, "m1", t, EmptyObject) :
     v \in {0, 2, 255}, t \in {"hello", "request_status", "bad_cmd"}}
  \cup {Inbound(v, "m1", "ping", p) : v \in {0, 2, 255}, p \in PingPayloads}
  \cup {Inbound(v, "m1", "set_mode_request", p) : v \in {0, 2, 255}, p \in SetModePayloads}

RecvHello == \E f \in HelloFrames : Finish(f, Dispatch(f))

\* a peer that sends hello only to open the session, and one that decodes
RecvFirstHello ==
  /\ ~handshake_complete
  /\ \E f \in HelloFrames : decode_payload(f, "hello") /\ Finish(f, Dispatch(f))

\* read_frame hands over the pings whose length prefix it accepts
RecvPing == \E f \in PingFrames : FitsFrame(PingLen(f)) /\ Finish(f, Dispatch(f))

RecvRequestStatus == \E f \in RequestStatusFrames : Finish(f, Dispatch(f))

RecvSetMode == \E f \in SetModeFrames : Finish(f, Dispatch(f))

RecvSetSetting == \E f \in SetSettingFrames : Finish(f, Dispatch(f))

RecvSceneSwitchResult == \E f \in SceneSwitchResultFrames : Finish(f, Dispatch(f))

RecvObsShutdown == \E f \in ObsShutdownFrames : Finish(f, Dispatch(f))

RecvUnknownType == \E f \in UnknownTypeFrames : Finish(f, Dispatch(f))

RecvMalformed == \E f \in MalformedFrames : Finish(f, Dispatch(f))

RecvBadVersion == \E f \in BadVersionFrames : Finish(f, Dispatch(f))

\* ------------------------------------------------------------- the peer's writes
\* a word of a body read as a length: the bytes of an envelope (array or map
\* marker, field bytes, text) have non-zero upper bytes, far above the limit
BigLen == 32767 * 65536 + 65535

\* the well-formed frames of the byte-level peer, and the length of their bodies
WireFrames ==
  {Inbound(IPC_PROTOCOL_VERSION, "m1", "hello", [shape |-> "hello", protocol_version |-> 1]),
   Inbound(IPC_PROTOCOL_VERSION, "m2", "request_status", EmptyObject)}

WireLen == 25 * 4

Prefix(len) == Run("len", 4, len, None, "")

Body(f) == Run("body", WireLen, BigLen, Some(f), "")

\* the peer says hello when it has not been acknowledged and nothing is in flight
MayWrite(f) ==
  f.message_type = "hello" <=> (~handshake_complete /\ cmd_reader.unread = <<>>)

PeerWrites(runs, owed) ==
  /\ pc = "read"
  /\ inbound_left > 0
  /\ cmd_reader.owed = None
  /\ inbound_left' = inbound_left - 1
  /\ cmd_reader' = [cmd_reader EXCEPT !.unread = @ \o runs, !.owed = owed]
  /\ UNCHANGED <<now, core_cmd_rx, evt_closed, telemetry, relay_cell, next_uuid, session_no>>
  /\ UNCHANGED <<locals, obsv>>
  /\ UNCHANGED <<sent, drained, counted, emitted, fired, acked, terminal, last_snapshot_at,
                 last_reply_at>>

\* a well-formed frame written in one go
PeerWriteFrame ==
  \E f \in WireFrames : MayWrite(f) /\ PeerWrites(<<Prefix(WireLen), Body(f)>>, None)

\* a well-formed frame of which the peer writes the length prefix now and the
\* body later
PeerWritePrefix ==
  \E f \in WireFrames : MayWrite(f) /\ PeerWrites(<<Prefix(WireLen)>>, Some(Body(f)))

PeerWriteBody ==
  /\ pc = "read"
  /\ cmd_reader.owed # None
  /\ cmd_reader' = [cmd_reader EXCEPT !.unread = Append(@, Unwrap(cmd_reader.owed)),
                                      !.owed = None]
  /\ UNCHANGED <<now, core_cmd_rx, evt_closed, telemetry, relay_cell, next_uuid, session_no>>
  /\ UNCHANGED <<locals, obsv, hist>>

\* a frame that declares more than MAX_FRAME_SIZE bytes and carries them; its
\* bytes read as lengths are zero or above the limit
PeerWriteOversize ==
  \E word \in {0, BigLen} :
    PeerWrites(<<Prefix(MAX_FRAME_SIZE + 4),
                 Run("over", MAX_FRAME_SIZE + 4, word, None, "")>>, None)

\* a frame within the limit (up to the limit itself) whose body is no envelope:
\* bytes that are no MessagePack, or an envelope with a text where the decoder
\* expects something else, which its error message repeats
PeerWriteUndecodable ==
  \E len \in {3 * 4, MAX_FRAME_SIZE}, echo \in {"", "frame too large"} :
    PeerWrites(<<Prefix(len), Run("fill", len, BigLen, None, echo)>>, None)

\* timeout(READ_POLL_TIMEOUT, read_frame(cmd_reader)) with bytes in the pipe, and
\* the match on its result
ReadFrame ==
  /\ pc = "read"
  /\ CanRead
  /\ LET r == read_frame(cmd_reader)
     IN /\ cmd_reader' = r.reader
        /\ IF ~r.done
           THEN /\ out' = <<>>
                /\ inp' = None
                /\ UNCHANGED locals
                /\ UNCHANGED debug_status
                /\ UNCHANGED <<sent, drained, counted, emitted, fired, acked, terminal,
                               last_snapshot_at, last_reply_at>>
           ELSE IF r.ok
           THEN FinishRead(Unwrap(r.frame), Dispatch(Unwrap(r.frame)))
           ELSE FinishRead([error |-> FrameErrorCode(r.msg), len |-> r.len,
                            text |-> r.msg.text],
                           FrameErrorArm(FrameErrorCode(r.msg)))
  /\ UNCHANGED <<now, core_cmd_rx, evt_closed, telemetry, relay_cell, next_uuid, session_no>>
  /\ UNCHANGED inbound_left

\* ------------------------------------------------------------ specifications
\* one iteration of the loop body, apart from the inbound read
LoopStep ==
  \/ DrainCommand
  \/ DrainDone
  \/ SweepCollect
  \/ SweepRemove
  \/ SweepNotify
  \/ PushStatus
  \/ Heartbeat
  \/ ReadTimeout

\* the loop body of a session that is sent no commands
IdleLoopStep ==
  \/ DrainDone
  \/ SweepCollect
  \/ PushStatus
  \/ Heartbeat
  \/ ReadTimeout

\* clock step of Spec
SpecTick == 2 * READ_POLL_TIMEOUT

\* the clock horizon of the switch-request specifications
Horizon == MaxTicks * SpecTick

TickAny == Tick(SpecTick, FALSE, Horizon)

\* time passes only while the session waits for input, one poll slice at a time
TickPrompt == Tick(READ_POLL_TIMEOUT, TRUE, Horizon)

\* Spec: the life of switch requests.  Producers send commands, the peer shakes
\* hands and acknowledges (also twice, also ids it was never sent); writes may block.
Next ==
  \/ TickAny
  \/ ProducerSend
  \/ LoopStep
  \/ RecvFirstHello
  \/ RecvSceneSwitchResult

Spec == Init /\ [][Next]_vars

\* SpecPush: the periodic push under inbound traffic (hello, pings, status and
\* mode requests, frames of an unknown type), when writes complete at once.  The
\* clock moves in half poll slices and starts with the handshake: the peer says
\* hello (and whatever else it sends before) as soon as it is connected.
PushTick == READ_POLL_TIMEOUT \div 2

PushHorizon == STATUS_PUSH_INTERVAL + MaxTicks * READ_POLL_TIMEOUT

TickFine == handshake_complete /\ Tick(PushTick, TRUE, PushHorizon)

NextPush ==
  \/ TickFine
  \/ IdleLoopStep
  \/ RecvHello
  \/ RecvPing
  \/ RecvRequestStatus
  \/ RecvSetMode
  \/ RecvUnknownType

SpecPush == Init /\ [][NextPush]_vars

\* SpecHeartbeat: the watchdog.  The peer shakes hands, pings now and then and may
\* close its end; writes complete at once; the clock moves in poll slices and
\* starts with the handshake.
HeartbeatHorizon == HEARTBEAT_TIMEOUT + MaxTicks * READ_POLL_TIMEOUT

TickSlice == handshake_complete /\ Tick(READ_POLL_TIMEOUT, TRUE, HeartbeatHorizon)

NextHeartbeat ==
  \/ TickSlice
  \/ IdleLoopStep
  \/ RecvHello
  \/ RecvPing
  \/ PeerCloseEvt

SpecHeartbeat == Init /\ [][NextHeartbeat]_vars

\* SpecErrors: a peer that sends frames the session counts as protocol errors
\* (unknown types, payloads that do not decode, frames read_frame rejects), in
\* bursts and spread over more than the tracker's window.
ErrorsTick == PROTOCOL_ERROR_WINDOW \div 2

ErrorsHorizon == PROTOCOL_ERROR_WINDOW + MaxTicks * ErrorsTick

TickWindow == Tick(ErrorsTick, FALSE, ErrorsHorizon)

InitErrors == InitWith(PROTOCOL_ERROR_RESET_THRESHOLD + MaxInbound - 1)

NextErrors ==
  \/ TickWindow
  \/ IdleLoopStep
  \/ RecvUnknownType
  \/ RecvMalformed
  \/ ReadFrameError

SpecErrors == InitErrors /\ [][NextErrors]_vars

\* SpecOverrides: a dock that sets modes and settings, the same ones again and
\* again too, before and after the handshake; writes may block.
NextOverrides ==
  \/ TickAny
  \/ IdleLoopStep
  \/ RecvFirstHello
  \/ RecvSetMode
  \/ RecvSetSetting

SpecOverrides == Init /\ [][NextOverrides]_vars

\* SpecSchema: a Running session with a mode override and switch requests in
\* flight that is sent frames of unknown types and payloads that do not decode.
\* The clock starts with the handshake.
TickRunning == handshake_complete /\ TickAny

NextSchema ==
  \/ TickRunning
  \/ ProducerSendFair
  \/ LoopStep
  \/ RecvFirstHello
  \/ RecvSetMode
  \/ RecvUnknownType
  \/ RecvMalformed

SpecSchema == Init /\ [][NextSchema]_vars

\* SpecPing: a peer that pings, before and after its hello, with nonces short and
\* long and with payloads that do not decode.
NextPing ==
  \/ TickRunning
  \/ IdleLoopStep
  \/ RecvFirstHello
  \/ RecvPing
  \/ RecvMalformed

SpecPing == Init /\ [][NextPing]_vars

\* SpecEarly: producers that send their commands only while the session still
\* waits for the hello.
ProducerSendEarly == ~handshake_complete /\ ProducerSend

NextEarly ==
  \/ TickAny
  \/ ProducerSendEarly
  \/ LoopStep
  \/ RecvFirstHello

SpecEarly == Init /\ [][NextEarly]_vars

\* SpecAwait: a peer that sends requests, pings and switch results before as well
\* as after its hello.
NextAwait ==
  \/ TickRunning
  \/ IdleLoopStep
  \/ RecvFirstHello
  \/ RecvPing
  \/ RecvRequestStatus
  \/ RecvSetMode
  \/ RecvSetSetting
  \/ RecvSceneSwitchResult

SpecAwait == Init /\ [][NextAwait]_vars

\* SpecVersion: a peer that sends envelopes of other versions, of every kind of
\* type, before and after its hello and after setting a mode override.
NextVersion ==
  \/ TickRunning
  \/ IdleLoopStep
  \/ RecvFirstHello
  \/ RecvSetMode
  \/ RecvBadVersion

SpecVersion == Init /\ [][NextVersion]_vars

\* SpecBitrate, SpecRelay: sessions that start with any telemetry frame (and any
\* relay session) of the input sets, and build snapshots at the handshake, on
\* request_status, after a mode request and at the periodic push.
NextSnapshot ==
  \/ TickRunning
  \/ IdleLoopStep
  \/ RecvFirstHello
  \/ RecvRequestStatus
  \/ RecvSetMode

InitBitrate == InitFrom(MaxInbound - 1, BitrateFrames, {None})

SpecBitrate == InitBitrate /\ [][NextSnapshot]_vars

InitRelay == InitFrom(MaxInbound - 1, RelayFrames, RelaySessions)

SpecRelay == InitRelay /\ [][NextSnapshot]_vars

\* SpecBurst: producers send several commands within one poll slice, so that one
\* command intake emits several requests; writes may block.
NextBurst ==
  \/ TickAny
  \/ ProducerSendBurst
  \/ LoopStep
  \/ RecvFirstHello

SpecBurst == Init /\ [][NextBurst]_vars

\* ------------------------------------------------------------------ listener
\* a listener that leaves the mirror as the session left it
SessionEndMirrorKept ==
  /\ pc = "done"
  /\ pc' = "accept"
  /\ UNCHANGED core_cmd_rx
  /\ out' = <<>>
  /\ inp' = None
  /\ UNCHANGED <<now, evt_closed, telemetry, relay_cell, next_uuid, session_no,
                 cmd_reader>>
  /\ UNCHANGED <<result, handshake_complete, last_ping_at, last_status_push_at,
                 read_started_at, pending_switches, session_overrides, protocol_errors,
                 expired_ids, expired>>
  /\ UNCHANGED debug_status
  /\ UNCHANGED hist

\* run_named_pipe_server after handle_session_io returned: the mirror is cleared
\* and the loop turns to the next accept.  The session's locals and its receiver
\* went with the session; what they held stays in the variables, unread, until
\* the next session gets its own.
SessionEnd ==
  /\ pc = "done"
  /\ pc' = "accept"
  /\ UNCHANGED core_cmd_rx
  /\ debug_status' = [debug_status EXCEPT !.session_connected = FALSE,
                                         !.pending_switch_count = 0]
  /\ out' = <<>>
  /\ inp' = None
  /\ UNCHANGED <<now, evt_closed, telemetry, relay_cell, next_uuid, session_no,
                 cmd_reader>>
  /\ UNCHANGED <<result, handshake_complete, last_ping_at, last_status_push_at,
                 read_started_at, pending_switches, session_overrides, protocol_errors,
                 expired_ids, expired>>
  /\ UNCHANGED hist

\* the next connection: both pipes connected, a receiver subscribed for the
\* session (rx: what the receiver holds, ov / errs / done: the session's locals),
\* the mirror marked connected, and handle_session_io entered
AcceptWith(rx, ov, errs, done) ==
  /\ pc = "accept"
  /\ session_no < MaxSessions
  /\ session_no' = session_no + 1
  /\ core_cmd_rx' = rx
  /\ evt_closed' = FALSE
  /\ debug_status' = [debug_status EXCEPT !.session_connected = TRUE]
  /\ pc' = "drain"
  /\ result' = "running"
  /\ handshake_complete' = done
  /\ last_ping_at' = now
  /\ last_status_push_at' = now
  /\ read_started_at' = 0
  /\ pending_switches' = EmptyMap
  /\ session_overrides' = ov
  /\ protocol_errors' = errs
  /\ expired_ids' = <<>>
  /\ expired' = None
  /\ out' = <<>>
  /\ inp' = None
  /\ drained' = {}
  /\ last_snapshot_at' = None
  /\ last_reply_at' = None
  /\ cmd_reader' = EmptyReader
  /\ UNCHANGED <<now, telemetry, relay_cell, next_uuid>>
  /\ UNCHANGED <<sent, counted, inbound_left, emitted, fired, acked, terminal>>

\* a listener that keeps one receiver for all its sessions
AcceptSameReceiver == AcceptWith(core_cmd_rx, SessionOverridesDefault, <<>>, FALSE)

\* a listener whose session state outlives the session
AcceptStaleState == AcceptWith(<<>>, session_overrides, protocol_errors, handshake_complete)

Accept == AcceptWith(<<>>, SessionOverridesDefault, <<>>, FALSE)

\* core_cmd_tx.send while no session holds a receiver: the send fails and the
\* command is gone
ProducerSendDetached ==
  /\ pc = "accept"
  /\ sent < MaxRequests
  /\ sent' = sent + 1
  /\ UNCHANGED envv
  /\ UNCHANGED <<locals, obsv>>
  /\ UNCHANGED <<drained, counted, inbound_left, emitted, fired, acked, terminal,
                 last_snapshot_at, last_reply_at>>

\* time passes while the listener waits in connect for the next client
ListenerWait ==
  /\ pc = "accept"
  /\ now + SpecTick <= Horizon
  /\ now' = now + SpecTick
  /\ UNCHANGED <<core_cmd_rx, evt_closed, telemetry, relay_cell, next_uuid, session_no,
                 cmd_reader>>
  /\ UNCHANGED <<locals, obsv, hist>>

\* the loop body of a session in which no time passes: no deadline is reached in
\* the sweep and the poll slice of the read never runs out
LoopStepAtOnce ==
  \/ DrainCommand
  \/ DrainDone
  \/ SweepCollect
  \/ PushStatus
  \/ Heartbeat

\* SpecListener: the listener and its sessions.  A session shakes hands, takes
\* commands and mode requests, is sent frames of unknown type and ends cleanly
\* (obs_shutdown_notice) or with a read error; producers send whether or not a
\* session is attached.  Within a session everything happens at once; time
\* passes between the sessions.
NextListener ==
  \/ ListenerWait
  \/ ProducerSend
  \/ ProducerSendDetached
  \/ LoopStepAtOnce
  \/ RecvFirstHello
  \/ RecvSetMode
  \/ RecvUnknownType
  \/ RecvObsShutdown
  \/ ReadTransportError
  \/ SessionEnd
  \/ Accept

SpecListener == Init /\ [][NextListener]_vars

\* SpecClose: sessions with switch requests in flight that the peer ends, by a
\* shutdown notice or by closing its end of the cmd pipe, before and after the
\* handshake; writes may block.
NextClose ==
  \/ TickAny
  \/ ProducerSend
  \/ LoopStep
  \/ RecvFirstHello
  \/ RecvObsShutdown
  \/ ReadTransportError
  \/ SessionEnd

SpecClose == Init /\ [][NextClose]_vars

\* SpecUnready: a peer that connects and never completes the handshake, over more
\* than the heartbeat timeout.  It may stay silent, ask for the status, send
\* frames of unknown types, of another version, a hello of another protocol
\* version or a shutdown notice, and close either pipe.
UnreadyTick == STATUS_PUSH_INTERVAL

UnreadyHorizon == HEARTBEAT_TIMEOUT + MaxTicks * UnreadyTick

TickUnready == ~handshake_complete /\ Tick(UnreadyTick, FALSE, UnreadyHorizon)

RecvRejectedHello ==
  \E f \in HelloFrames :
    /\ f.payload.protocol_version # IPC_PROTOCOL_VERSION
    /\ Finish(f, Dispatch(f))

NextUnready ==
  \/ TickUnready
  \/ IdleLoopStep
  \/ RecvRequestStatus
  \/ RecvUnknownType
  \/ RecvBadVersion
  \/ RecvRejectedHello
  \/ RecvObsShutdown
  \/ ReadTransportError
  \/ PeerCloseEvt

SpecUnready == InitErrors /\ [][NextUnready]_vars

\* SpecStream: the cmd pipe byte by byte.  The peer writes well-formed frames (in
\* one go, or the prefix first and the body after a pause), frames above the size
\* limit and frames that do not decode; writes to the evt pipe complete at once.
NextStream ==
  \/ TickPrompt
  \/ IdleLoopStep
  \/ PeerWriteFrame
  \/ PeerWritePrefix
  \/ PeerWriteBody
  \/ PeerWriteOversize
  \/ PeerWriteUndecodable
  \/ ReadFrame

SpecStream == Init /\ [][NextStream]_vars

\* SpecDomain: a dock that sends more requests than the protocol-error tracker
\* tolerates errors, among them invalid modes and unknown setting keys.
SpecDomain == InitErrors /\ [][NextOverrides]_vars

\* ===================================================================== claims
IsResult(o) ==
  /\ o # None
  /\ "message_type" \in DOMAIN Unwrap(o)
  /\ Unwrap(o).message_type = "scene_switch_result"
  /\ Unwrap(o).v = IPC_PROTOCOL_VERSION
  /\ Unwrap(o).payload.shape = "scene_switch_result"

MirrorResult(id, status, error) ==
  Some([request_id |-> id, status |-> status, error |-> error])

TimeoutNoticeFor(id, scene) ==
  UserNotice("high", "warn", "Scene switch timed out", scene, id)

\* C1: for every request id the debug mirror is given at most one terminal switch
\* result (one ok/error ack or one timeout, never both, never twice), whatever the
\* interleaving of command intake, sweeps and inbound results, duplicates included.
C1_OneTerminalResult == \A r \in DOMAIN terminal : Len(terminal[r]) <= 1

\* a request that timed out and then was acknowledged: the late ack was dispatched
\* and left the one terminal result in place
C1_Witness ==
  \E r \in emitted :
    /\ Len(terminal[r]) = 1
    /\ terminal[r][1].status = "timeout"
    /\ IsResult(inp)
    /\ Unwrap(inp).payload.request_id = r

\* C2: between loop steps a request id is in the pending-switch table iff its
\* switch_scene frame was emitted in this session and neither a matching
\* scene_switch_result nor a timeout for it has been processed.
C2_PendingIffOutstanding == DOMAIN pending_switches = emitted \ (acked \cup fired)

\* one request still pending while another one has been acknowledged or timed out
C2_Witness ==
  /\ pending_switches # EmptyMap
  /\ emitted \cap (acked \cup fired) # {}

\* C3: the ack-versus-timeout race is decided by loop order.  A scene_switch_result
\* for R dispatched while no sweep has yet seen R's deadline pass (R is still in the
\* table, even if the deadline has passed on the clock) removes R with status
\* ok/error, and no timeout is ever reported for R; once a sweep has removed R it
\* writes the timeout notice, and a result for R dispatched later is recorded as
\* unknown_request and changes nothing else.
C3_Step ==
  /\ (IsResult(inp') /\ pc = "read" /\ pc' # "read") =>
       LET f == Unwrap(inp')
           r == f.payload.request_id
       IN /\ expired_ids = <<>> /\ expired = None
          /\ IF r \in emitted /\ r \notin fired /\ terminal[r] = <<>>
             THEN /\ r \notin DOMAIN pending_switches'
                  /\ debug_status'.last_switch_result =
                       MirrorResult(r, IF f.payload.ok THEN "ok" ELSE "error", f.payload.error)
                  /\ out' = <<>>
             ELSE /\ pending_switches' = pending_switches
                  /\ debug_status'.last_switch_result =
                       MirrorResult(r, "unknown_request", f.payload.error)
                  /\ terminal' = terminal
                  /\ out' = <<>>
  /\ \A r \in fired' \ fired : terminal[r] = <<>>
  /\ (pc = "sweep_write" /\ pc' # "sweep_write") =>
       LET e == Unwrap(expired)
       IN /\ out' = <<TimeoutNoticeFor(e.request_id, e.scene_name)>>
          /\ e.request_id \in fired
          /\ debug_status'.last_switch_result = MirrorResult(e.request_id, "timeout", None)
  /\ \A r \in emitted :
       (terminal[r] # <<>> /\ terminal[r][1].status # "timeout") => r \notin fired'
  /\ (out' # out) =>
       \A i \in 1..Len(out') :
         (out'[i].message_type = "user_notice" /\ out'[i].payload.level = "warn") =>
            /\ pc = "sweep_write"
            /\ terminal[out'[i].payload.request_id] = <<>>

C3_AckTimeoutRace == [][C3_Step]_vars

\* an ack dispatched after the deadline had passed on the clock but before any
\* sweep saw it: the ack won
C3_Witness ==
  \E r \in emitted :
    /\ Len(terminal[r]) = 1
    /\ terminal[r][1].status = "ok"
    /\ terminal[r][1].overdue
    /\ debug_status.last_switch_result = MirrorResult(r, "ok", None)

\* a result dispatched for a request the sweep had already removed
C3_WitnessLate ==
  \E r \in fired :
    /\ debug_status.last_switch_result = MirrorResult(r, "unknown_request", None)
    /\ terminal[r][1].status = "timeout"

\* SpecFair: the same traffic when every write completes at once; the session
\* task is scheduled and time passes while it waits for input
NextFair ==
  \/ TickPrompt
  \/ ProducerSendFair
  \/ LoopStep
  \/ RecvFirstHello
  \/ RecvSceneSwitchResult

SpecFair == InitFair /\ [][NextFair]_vars /\ WF_vars(LoopStep) /\ WF_vars(TickPrompt)

\* C4: a switch_scene request that was emitted and is never acknowledged is, while
\* the session keeps running, eventually removed by a sweep that writes one
\* user_notice of level warn naming the scene and the request id and sets the
\* mirror's last_switch_result to "timeout" for it; a sweep never removes a
\* request whose deadline has not passed.  (Deadlines beyond the modelled clock
\* horizon are outside the statement.)
C4_SweepStep ==
  /\ \A r \in fired' \ fired :
       /\ r \in DOMAIN pending_switches
       /\ now >= pending_switches[r].deadline_at
       /\ r \notin DOMAIN pending_switches'
       /\ expired' = Some([request_id |-> r,
                           scene_name |-> pending_switches[r].scene_name,
                           overdue |-> TRUE])
  /\ \A r \in DOMAIN terminal :
       (Len(terminal'[r]) > Len(terminal[r]) /\ terminal'[r][Len(terminal'[r])].status = "timeout") =>
          /\ expired # None /\ Unwrap(expired).request_id = r
          /\ terminal'[r][Len(terminal'[r])].overdue
          /\ out' = <<TimeoutNoticeFor(r, Unwrap(expired).scene_name)>>
          /\ debug_status'.last_switch_result = MirrorResult(r, "timeout", None)
          /\ debug_status'.pending_switch_count = Cardinality(DOMAIN pending_switches')

C4_TimeoutEventually ==
  /\ [][C4_SweepStep]_vars
  /\ \A r \in 1..(MaxRequests - 1) :
       (r \in DOMAIN pending_switches /\ pending_switches[r].deadline_at <= Horizon)
         ~> (\/ r \in acked
             \/ pc = "done"
             \/ terminal[r] = <<[status |-> "timeout", overdue |-> TRUE]>>)

\* the sweep has just reported the timeout of a request nobody acknowledged
C4_Witness ==
  \E r \in emitted \ acked :
    /\ terminal[r] = <<[status |-> "timeout", overdue |-> TRUE]>>
    /\ Len(out) = 1
    /\ out[1].message_type = "user_notice"
    /\ out[1].payload.level = "warn"
    /\ out[1].payload.request_id = r
    /\ out[1].payload.subject \in {c.scene_name : c \in Commands}
    /\ debug_status.last_switch_result = MirrorResult(r, "timeout", None)

\* C5: while the session is Running a status_snapshot is written at least once in
\* every interval of STATUS_PUSH_INTERVAL plus one poll slice, whatever arrives
\* (nothing, pings, requests that change nothing or something, unknown frames).
\* Until the first snapshot after the handshake no time has passed at all.
C5_PushCadence ==
  (handshake_complete /\ pc # "done") =>
     IF last_snapshot_at = None
     THEN pc \in {"drain", "sweep", "push"} /\ now = last_ping_at
     ELSE now - Unwrap(last_snapshot_at) <= STATUS_PUSH_INTERVAL + READ_POLL_TIMEOUT

\* the loop waits for input more than a push interval after the last snapshot: the
\* frames that arrived shifted the poll slices
C5_Witness ==
  /\ handshake_complete
  /\ pc = "read"
  /\ last_snapshot_at # None
  /\ now - Unwrap(last_snapshot_at) > STATUS_PUSH_INTERVAL
  /\ inbound_left < MaxInbound - 1

\* C8: a hello whose protocol_version is not 1 is answered with one user_notice
\* of level error and no hello_ack, the session does not enter Running and ends;
\* nothing is written to the evt channel after that.  (The hello is one that
\* decodes: a protocol_version that is no u8 is a payload error, not a hello.)
IsHello(o) ==
  /\ o # None
  /\ "message_type" \in DOMAIN Unwrap(o)
  /\ Unwrap(o).message_type = "hello"
  /\ Unwrap(o).v = IPC_PROTOCOL_VERSION
  /\ Unwrap(o).payload.shape = "hello"

Dispatched == pc = "read" /\ pc' # "read"

C8_Step ==
  /\ (Dispatched /\ IsHello(inp') /\ Unwrap(inp').payload.protocol_version \in (0..255) \ {1}) =>
       /\ Len(out') = 1
       /\ out'[1].message_type = "user_notice"
       /\ out'[1].payload.level = "error"
       /\ handshake_complete' = handshake_complete
       /\ pc' = "done"
       /\ result' = "ok"
  /\ pc = "done" => (out' = out /\ pc' = "done" /\ handshake_complete' = handshake_complete)

C8_VersionMismatchEnds == [][C8_Step]_vars

\* the session ended on a mismatching hello, with the notice as its last frame
C8_Witness ==
  /\ pc = "done"
  /\ result = "ok"
  /\ ~handshake_complete
  /\ IsHello(inp)
  /\ Unwrap(inp).payload.protocol_version = 2
  /\ Len(out) = 1
  /\ out[1].payload.level = "error"

\* C9: on a well-formed hello with protocol_version 1 in AwaitHello the session
\* writes hello_ack (protocol_version 1; capabilities state_machine, aegis,
\* ipc_stub), enters Running, and the push of the next iteration is due at once:
\* the loop does not get to its heartbeat check or to another read before a
\* status_snapshot was written.
C9_Step ==
  (Dispatched /\ ~handshake_complete /\ IsHello(inp')
     /\ Unwrap(inp').payload.protocol_version = 1) =>
       /\ Len(out') = 1
       /\ out'[1].message_type = "hello_ack"
       /\ out'[1].payload.protocol_version = 1
       /\ out'[1].payload.capabilities = <<"state_machine", "aegis", "ipc_stub">>
       /\ handshake_complete'
       /\ last_ping_at' = now
       /\ pc' = "drain"
       /\ result' = "running"
       /\ last_snapshot_at' = None

C9_SnapshotFirst ==
  (handshake_complete /\ last_snapshot_at = None /\ pc # "done") =>
     /\ pc \in {"drain", "sweep", "sweep_next", "sweep_write", "push"}
     /\ now - last_status_push_at >= STATUS_PUSH_INTERVAL

C9_HelloAccepted == [][C9_Step]_vars /\ []C9_SnapshotFirst

\* the first snapshot has just been written, in the iteration after the hello
C9_Witness ==
  /\ handshake_complete
  /\ pc = "heartbeat"
  /\ Len(out) = 1
  /\ out[1].message_type = "status_snapshot"
  /\ last_snapshot_at = Some(now)
  /\ last_status_push_at = now
  /\ inbound_left = MaxInbound - 1

\* C6: in a Running session the first iteration whose watchdog check finds that
\* HEARTBEAT_TIMEOUT has elapsed since the last ping writes exactly one
\* protocol_error with code timeout and no related message id, reads nothing any
\* more and ends the session with a successful return.  No iteration goes on to
\* read with the timeout already elapsed, so the session does not outlive the
\* timeout by more than the poll slice it was waiting in.
C6_Step ==
  /\ (pc = "heartbeat" /\ pc' # "heartbeat" /\ handshake_complete
        /\ now - last_ping_at >= HEARTBEAT_TIMEOUT) =>
       /\ pc' = "done"
       /\ result' = "ok"
       /\ inbound_left' = inbound_left
       /\ IF evt_closed
          THEN out' = <<>>
          ELSE /\ Len(out') = 1
               /\ out'[1].message_type = "protocol_error"
               /\ out'[1].payload.code = "timeout"
               /\ out'[1].payload.related_message_id = None
  /\ (pc = "heartbeat" /\ pc' = "done") => now - last_ping_at >= HEARTBEAT_TIMEOUT
  /\ pc = "done" => (inbound_left' = inbound_left /\ out' = out /\ pc' = "done")

C6_Watchdog ==
  /\ (pc = "read" /\ handshake_complete) => read_started_at - last_ping_at < HEARTBEAT_TIMEOUT
  /\ (pc # "done" /\ handshake_complete) =>
        now - last_ping_at <= HEARTBEAT_TIMEOUT + READ_POLL_TIMEOUT - 1

C6_HeartbeatTimeout == [][C6_Step]_vars /\ []C6_Watchdog

\* the watchdog has just ended a session whose peer could still send
C6_Witness ==
  /\ pc = "done"
  /\ result = "ok"
  /\ handshake_complete
  /\ now - last_ping_at >= HEARTBEAT_TIMEOUT
  /\ inbound_left > 0
  /\ Len(out) = 1
  /\ out[1].message_type = "protocol_error"
  /\ out[1].payload.code = "timeout"

\* C7: the tracker ends the session exactly when a newly recorded protocol error
\* brings the number of errors recorded within the trailing PROTOCOL_ERROR_WINDOW
\* above PROTOCOL_ERROR_RESET_THRESHOLD: the sixth one in a window ends the session
\* with a successful return, after its own protocol_error frame was written, and
\* a record that leaves at most five in the window never ends it.
InWindow(log, t) == {i \in 1..Len(log) : t - log[i] <= PROTOCOL_ERROR_WINDOW}

C7_Step ==
  /\ Len(counted') = Len(counted) + 1 =>
       /\ counted' = Append(counted, now)
       /\ Len(out') = 1
       /\ out'[1].message_type = "protocol_error"
       /\ out'[1].payload.code \in
            {"unknown_type", "invalid_payload", "frame_too_large", "decode_failed"}
       /\ pc' = "done" <=>
            Cardinality(InWindow(counted', now)) > PROTOCOL_ERROR_RESET_THRESHOLD
       /\ pc' = "done" => result' = "ok"
       /\ Len(protocol_errors') = Cardinality(InWindow(counted', now))
  /\ Len(counted') = Len(counted) => (pc' = "done" => pc = "done")
  /\ Len(counted') \in {Len(counted), Len(counted) + 1}

C7_WitnessFive ==
  /\ pc = "drain"
  /\ result = "running"
  /\ Cardinality(InWindow(counted, now)) = PROTOCOL_ERROR_RESET_THRESHOLD
  /\ counted # <<>> /\ counted[Len(counted)] = now

\* C10: a set_mode_request naming the mode the override already holds, or a
\* set_setting_request giving a key the value its override already holds, writes
\* no frame at all, leaves the overrides as they are and does not move the
\* deadline of the periodic push.
IsRequest(o, message_type) ==
  /\ o # None
  /\ "message_type" \in DOMAIN Unwrap(o)
  /\ Unwrap(o).message_type = message_type
  /\ Unwrap(o).v = IPC_PROTOCOL_VERSION
  /\ Unwrap(o).payload.shape = message_type

NoOpRequest(o) ==
  \/ /\ IsRequest(o, "set_mode_request")
     /\ session_overrides.mode = Some(Unwrap(o).payload.mode)
  \/ /\ IsRequest(o, "set_setting_request")
     /\ Unwrap(o).payload.key \in
          {"auto_scene_switch", "low_quality_fallback", "manual_override", "chat_bot", "alerts"}
     /\ session_overrides[Unwrap(o).payload.key] = Some(Unwrap(o).payload.value)

C10_Step ==
  (Dispatched /\ NoOpRequest(inp')) =>
     /\ out' = <<>>
     /\ session_overrides' = session_overrides
     /\ last_status_push_at' = last_status_push_at
     /\ last_snapshot_at' = last_snapshot_at
     /\ debug_status' = debug_status
     /\ pc' = "drain"
     /\ result' = "running"

C10_NoOpRequestsAreSilent == [][C10_Step]_vars

\* a mode request repeated in a Running session some time after the last push
C10_Witness ==
  /\ IsRequest(inp, "set_mode_request")
  /\ session_overrides.mode = Some(Unwrap(inp).payload.mode)
  /\ out = <<>>
  /\ handshake_complete
  /\ pc = "drain"
  /\ last_status_push_at < now

\* a setting request repeated
C10_WitnessSetting ==
  /\ IsRequest(inp, "set_setting_request")
  /\ Unwrap(inp).payload.key \in {"manual_override", "alerts"}
  /\ session_overrides[Unwrap(inp).payload.key] = Some(Unwrap(inp).payload.value)
  /\ out = <<>>
  /\ pc = "drain"

\* C11: a set_setting_request whose key is none of auto_scene_switch,
\* low_quality_fallback, manual_override, chat_bot, alerts is answered with exactly
\* one protocol_error of code invalid_payload whose related_message_id is the
\* request's envelope id, with nothing else, and changes no override.
C11_Step ==
  (Dispatched /\ IsRequest(inp', "set_setting_request")
     /\ Unwrap(inp').payload.key \notin
          {"auto_scene_switch", "low_quality_fallback", "manual_override", "chat_bot", "alerts"}) =>
       /\ Len(out') = 1
       /\ out'[1].message_type = "protocol_error"
       /\ out'[1].payload.code = "invalid_payload"
       /\ out'[1].payload.related_message_id = Some(Unwrap(inp').id)
       /\ session_overrides' = session_overrides
       /\ last_status_push_at' = last_status_push_at
       /\ pc' = "drain"
       /\ result' = "running"

IsEnvelope(o) ==
  /\ o # None
  /\ "message_type" \in DOMAIN Unwrap(o)
  /\ Unwrap(o).v = IPC_PROTOCOL_VERSION

UnknownType(f) ==
  f.message_type \notin
    {"hello", "ping", "request_status", "set_mode_request", "set_setting_request",
     "scene_switch_result", "obs_shutdown_notice"}

Undecodable(f) ==
  /\ ~UnknownType(f)
  /\ \/ f.payload.shape = "not_an_object"
     \/ f.message_type # "request_status" /\ f.payload.shape # f.message_type
     \/ /\ f.message_type = "hello" /\ f.payload.shape = "hello"
        /\ f.payload.protocol_version > 255

C12_Step ==
  (Dispatched /\ IsEnvelope(inp') /\ (UnknownType(Unwrap(inp')) \/ Undecodable(Unwrap(inp')))) =>
     LET f == Unwrap(inp')
     IN /\ Len(out') = 1
        /\ out'[1].message_type = "protocol_error"
        /\ out'[1].payload.code = IF UnknownType(f) THEN "unknown_type" ELSE "invalid_payload"
        /\ out'[1].payload.related_message_id = Some(f.id)
        /\ counted' = Append(counted, now)
        /\ protocol_errors' # <<>>
        /\ protocol_errors'[Len(protocol_errors')] = now
        /\ handshake_complete' = handshake_complete
        /\ session_overrides' = session_overrides
        /\ pending_switches' = pending_switches
        /\ last_ping_at' = last_ping_at
        /\ debug_status'.last_switch_result = debug_status.last_switch_result
        /\ Len(protocol_errors') <= PROTOCOL_ERROR_RESET_THRESHOLD =>
             (pc' = "drain" /\ result' = "running")

C12_WitnessUnknown ==
  /\ IsEnvelope(inp)
  /\ UnknownType(Unwrap(inp))
  /\ Len(out) = 1
  /\ out[1].payload.code = "unknown_type"
  /\ out[1].payload.related_message_id = Some(Unwrap(inp).id)
  /\ handshake_complete
  /\ pending_switches # EmptyMap
  /\ pc = "drain"

\* C13: every well-formed ping is answered, in the step that reads it, by exactly
\* one pong whose nonce equals the ping's nonce (pongs therefore leave in the order
\* their pings arrived), a ping whose payload does not decode is answered by no
\* pong, and a pong is written by no other step. The peer keeps its end of the
\* evt channel open.
IsPing(o) == IsEnvelope(o) /\ Unwrap(o).message_type = "ping"

Pongs(frames) == SelectSeq(frames, LAMBDA e : e.message_type = "pong")

C13_Step ==
  /\ (Dispatched /\ IsPing(inp') /\ ~evt_closed) =>
       LET f == Unwrap(inp')
       IN IF f.payload.shape = "ping"
          THEN /\ Len(Pongs(out')) = 1
               /\ Pongs(out')[1].payload.nonce = f.payload.nonce
          ELSE Pongs(out') = <<>>
  /\ (out' # out /\ Pongs(out') # <<>>) => (Dispatched /\ IsPing(inp'))

C13_PingPong == [][C13_Step]_vars

\* a Running session read a well-formed ping that fits a frame, wrote no pong and
\* returned an error, with the evt channel open
C13_Witness ==
  /\ IsPing(inp)
  /\ Unwrap(inp).payload.shape = "ping"
  /\ FitsFrame(PingLen(Unwrap(inp)))
  /\ handshake_complete
  /\ ~evt_closed
  /\ out = <<>>
  /\ pc = "done"
  /\ result = "err"

\* C14: no frame whose encoded envelope is longer than 65536 bytes is ever written
\* to the evt channel; a step whose frame is oversize writes nothing at all and
\* the session returns the error.
PongFor(f) == make_envelope("pong", "normal", [nonce |-> f.payload.nonce])

C14_Step ==
  /\ \A i \in 1..Len(out') : EncodedLen(out'[i]) <= MAX_FRAME_SIZE
  /\ (Dispatched /\ IsPing(inp') /\ Unwrap(inp').payload.shape = "ping"
        /\ EncodedLen(PongFor(Unwrap(inp'))) > MAX_FRAME_SIZE) =>
       (out' = <<>> /\ pc' = "done" /\ result' = "err")

C14_FrameSizeLimit == [][C14_Step]_vars

\* the pong for the long nonce was refused: 65559 bytes encoded, nothing written
C14_Witness ==
  /\ IsPing(inp)
  /\ Unwrap(inp).payload.shape = "ping"
  /\ EncodedLen(PongFor(Unwrap(inp))) = MAX_FRAME_SIZE + 23
  /\ PingLen(Unwrap(inp)) = MAX_FRAME_SIZE - 12
  /\ out = <<>>
  /\ result = "err"

\* C15: a SwitchScene command sent on the fan-in bus while the session is in
\* AwaitHello is discarded: it never becomes a switch_scene frame, a pending-table
\* entry or the mirror's last switch request, also after the handshake completes.
\* (Under SpecEarly every command is sent in AwaitHello.)
SwitchScenes(frames) == SelectSeq(frames, LAMBDA e : e.message_type = "switch_scene")

C15_EarlyCommandsDiscarded ==
  /\ SwitchScenes(out) = <<>>
  /\ emitted = {}
  /\ pending_switches = EmptyMap
  /\ debug_status.last_switch_request = None

\* a command sent before the hello was still on the bus when the handshake
\* completed, and the next intake turned it into a switch request
C15_Witness ==
  /\ sent = 1
  /\ handshake_complete
  /\ Len(SwitchScenes(out)) = 1
  /\ out[1].payload.request_id \in DOMAIN pending_switches
  /\ debug_status.pending_switch_count = 1

\* a command sent before the hello and taken off the bus before it was dropped
C15_WitnessDropped ==
  /\ sent = 1
  /\ core_cmd_rx = <<>>
  /\ handshake_complete
  /\ emitted = {}
  /\ pc = "read"

\* C16: while the session is in AwaitHello, reading a ping, request_status,
\* set_mode_request, set_setting_request or scene_switch_result writes no pong, no
\* status_snapshot and no user_notice of level info, and changes neither the
\* overrides nor the pending table nor the mirror's last switch result.
RunningOnlyTypes ==
  {"ping", "request_status", "set_mode_request", "set_setting_request",
   "scene_switch_result"}

Replies(frames) ==
  SelectSeq(frames,
            LAMBDA e : \/ e.message_type \in {"pong", "status_snapshot"}
                       \/ e.message_type = "user_notice" /\ e.payload.level = "info")

C16_Step ==
  (Dispatched /\ ~handshake_complete /\ IsEnvelope(inp')
     /\ Unwrap(inp').message_type \in RunningOnlyTypes) =>
    /\ Replies(out') = <<>>
    /\ session_overrides' = session_overrides
    /\ pending_switches' = pending_switches
    /\ debug_status'.pending_switch_count = debug_status.pending_switch_count
    /\ debug_status'.last_switch_result = debug_status.last_switch_result

C16_DispatchOnlyInRunning == [][C16_Step]_vars

\* a ping read before any hello was answered with a pong
C16_Witness ==
  /\ ~handshake_complete
  /\ IsPing(inp)
  /\ Len(out) = 1
  /\ out[1].message_type = "pong"
  /\ out[1].payload.nonce = Unwrap(inp).payload.nonce

\* a set_mode_request read before any hello changed the override and was
\* answered with a notice and a snapshot
C16_WitnessOverride ==
  /\ ~handshake_complete
  /\ IsEnvelope(inp)
  /\ Unwrap(inp).message_type = "set_mode_request"
  /\ session_overrides.mode = Some("irl")
  /\ Len(Replies(out)) = 2

\* C17: an inbound envelope whose version is not 1, whatever its type and whether
\* or not the handshake is complete, is answered by exactly one user_notice of
\* level error and ends the session; it is not dispatched by type (no handshake,
\* override, pending-table or last_ping change), no protocol_error is written and
\* the protocol-error tracker does not count it.
OtherVersion(o) ==
  /\ o # None
  /\ "message_type" \in DOMAIN Unwrap(o)
  /\ Unwrap(o).v # IPC_PROTOCOL_VERSION

C17_Step ==
  (Dispatched /\ OtherVersion(inp') /\ ~evt_closed) =>
    /\ Len(out') = 1
    /\ out'[1].message_type = "user_notice"
    /\ out'[1].payload.level = "error"
    /\ pc' = "done"
    /\ result' = "ok"
    /\ counted' = counted
    /\ protocol_errors' = protocol_errors
    /\ handshake_complete' = handshake_complete
    /\ session_overrides' = session_overrides
    /\ pending_switches' = pending_switches
    /\ last_ping_at' = last_ping_at
    /\ last_snapshot_at' = last_snapshot_at
    /\ debug_status'.last_switch_result = debug_status.last_switch_result

C17_EnvelopeVersion == [][C17_Step]_vars

\* a Running session with a mode override read a well-formed ping in a version-2
\* envelope and ended with the notice
C17_Witness ==
  /\ OtherVersion(inp)
  /\ Unwrap(inp).message_type = "ping"
  /\ Unwrap(inp).v = 2
  /\ handshake_complete
  /\ session_overrides.mode # None
  /\ Len(out) = 1
  /\ out[1].payload.level = "error"
  /\ pc = "done"
  /\ result = "ok"

\* a hello in a version-0 envelope ended a session that had not shaken hands
C17_WitnessHello ==
  /\ OtherVersion(inp)
  /\ Unwrap(inp).message_type = "hello"
  /\ Unwrap(inp).v = 0
  /\ ~handshake_complete
  /\ pc = "done"

\* C18: for every telemetry frame, relay session and override set, a snapshot has
\* state_mode DEGRADED exactly when the frame's obs connected flag is false,
\* whatever the relay status and the mode override: both for the snapshot built
\* from the current inputs and for every snapshot a step writes.
Snapshots(frames) == SelectSeq(frames, LAMBDA e : e.message_type = "status_snapshot")

CurrentSnapshot ==
  build_status_snapshot_with_overrides(telemetry, relay_cell, session_overrides)

C18_Step ==
  /\ CurrentSnapshot.state_mode = "DEGRADED" <=> ~telemetry.obs_connected
  /\ pc' # pc =>
       \A i \in 1..Len(Snapshots(out')) :
         Snapshots(out')[i].payload.state_mode = "DEGRADED" <=> ~telemetry.obs_connected

C18_DegradedIffDisconnected == [][C18_Step]_vars

\* a DEGRADED snapshot was written with an active relay session and the mode
\* overridden to irl
C18_Witness ==
  /\ Snapshots(out) # <<>>
  /\ Snapshots(out)[1].payload.state_mode = "DEGRADED"
  /\ Snapshots(out)[1].payload.mode = "irl"
  /\ ~telemetry.obs_connected
  /\ relay_cell # None
  /\ Unwrap(relay_cell).status = "active"
  /\ session_overrides.mode = Some("irl")

\* C19: a snapshot's bitrate_kbps is min(sum of the streams' bitrates, 2^32 - 1),
\* the sum taken without any wrap-around, and 0 for an empty list of streams.
RECURSIVE SumHalf(_, _)
SumHalf(streams, k) ==
  IF streams = <<>> THEN 0
  ELSE Head(streams).bitrate_kbps[k] + SumHalf(Tail(streams), k)

\* min(true sum, 2^32 - 1) as <<hi, lo>>, from the sums of the two halves
MinSumU32(streams) ==
  LET lo == SumHalf(streams, 2)
      hi == SumHalf(streams, 1) + (lo \div U16)
  IN IF hi >= U16 THEN <<U16 - 1, U16 - 1>> ELSE <<hi, lo % U16>>

C19_Step ==
  /\ CurrentSnapshot.bitrate_kbps = MinSumU32(telemetry.streams)
  /\ telemetry.streams = <<>> => CurrentSnapshot.bitrate_kbps = <<0, 0>>
  /\ pc' # pc =>
       \A i \in 1..Len(Snapshots(out')) :
         Snapshots(out')[i].payload.bitrate_kbps = MinSumU32(telemetry.streams)

C19_SaturatingBitrate == [][C19_Step]_vars

\* a snapshot saturated at 2^32 - 1 although no stream alone has that bitrate
C19_Witness ==
  /\ Snapshots(out) # <<>>
  /\ Snapshots(out)[1].payload.bitrate_kbps = <<U16 - 1, U16 - 1>>
  /\ Len(telemetry.streams) = 2
  /\ \A i \in 1..2 : telemetry.streams[i].bitrate_kbps = <<U16 \div 2, 1>>

\* a snapshot whose sum carried into the high half without saturating
C19_WitnessCarry ==
  /\ Snapshots(out) # <<>>
  /\ Snapshots(out)[1].payload.bitrate_kbps = <<1, 2221>>
  /\ Len(telemetry.streams) = 2

\* C20: for a connected frame state_mode is IRL_CONNECTING, IRL_ACTIVE or IRL_GRACE
\* exactly when a relay session with status "provisioning", "active" or "grace"
\* is present, and STUDIO otherwise; the relay block maps the same three strings
\* (any other to inactive) whether connected or not, passes the region through,
\* takes grace_remaining_seconds from the timers or 0, and is
\* {inactive, no region, 0} without a relay session.
RelayHas(status) == relay_cell # None /\ Unwrap(relay_cell).status = status

C20_Holds(snapshot) ==
  /\ telemetry.obs_connected =>
       /\ snapshot.state_mode = "IRL_CONNECTING" <=> RelayHas("provisioning")
       /\ snapshot.state_mode = "IRL_ACTIVE" <=> RelayHas("active")
       /\ snapshot.state_mode = "IRL_GRACE" <=> RelayHas("grace")
       /\ snapshot.state_mode = "STUDIO" <=>
            ~(RelayHas("provisioning") \/ RelayHas("active") \/ RelayHas("grace"))
  /\ snapshot.relay.status = "provisioning" <=> RelayHas("provisioning")
  /\ snapshot.relay.status = "active" <=> RelayHas("active")
  /\ snapshot.relay.status = "grace" <=> RelayHas("grace")
  /\ snapshot.relay.status = "inactive" <=>
       ~(RelayHas("provisioning") \/ RelayHas("active") \/ RelayHas("grace"))
  /\ relay_cell = None =>
       snapshot.relay = [status |-> "inactive", region |-> None,
                         grace_remaining_seconds |-> 0]
  /\ relay_cell # None =>
       /\ snapshot.relay.region = Unwrap(relay_cell).region
       /\ snapshot.relay.grace_remaining_seconds =
            IF Unwrap(relay_cell).timers # None
               /\ Unwrap(Unwrap(relay_cell).timers).grace_remaining_seconds # None
            THEN Unwrap(Unwrap(Unwrap(relay_cell).timers).grace_remaining_seconds)
            ELSE 0

C20_Step ==
  /\ C20_Holds(CurrentSnapshot)
  /\ pc' # pc =>
       \A i \in 1..Len(Snapshots(out')) : C20_Holds(Snapshots(out')[i].payload)

C20_RelayMapping == [][C20_Step]_vars

\* a connected session in grace: IRL_GRACE, relay {grace, region, 30 s left}
C20_Witness ==
  /\ Snapshots(out) # <<>>
  /\ telemetry.obs_connected
  /\ Snapshots(out)[1].payload.state_mode = "IRL_GRACE"
  /\ Snapshots(out)[1].payload.relay =
       [status |-> "grace", region |-> Some("eu-west"), grace_remaining_seconds |-> 30]

\* a disconnected session with a relay of a status the snapshot does not know
C20_WitnessUnknown ==
  /\ Snapshots(out) # <<>>
  /\ ~telemetry.obs_connected
  /\ RelayHas("stopped")
  /\ Snapshots(out)[1].payload.relay.status = "inactive"
  /\ Snapshots(out)[1].payload.relay.region = Some("eu-west")

\* C23: a switch_scene request emitted by the command intake of a loop iteration
\* is not expired by the timeout sweep of that same iteration, however many
\* commands that intake drained.
C23_Step == (fired' \ fired) \cap drained = {}

C23_NoSameIterationTimeout == [][C23_Step]_vars

\* the sweep has just expired a request that the intake of the same iteration
\* emitted, while a later request of that intake is still pending
C23_Witness ==
  /\ pc = "sweep_write"
  /\ expired # None
  /\ fired \cap drained # {}
  /\ Cardinality(drained) = 2
  /\ pending_switches # EmptyMap

\* C24: once the session is Running, last_ping changes only in a step that reads
\* a well-formed ping and answers it with a pong; no other inbound frame and no
\* other step of the loop refreshes it.
C24_Step ==
  (handshake_complete /\ last_ping_at' # last_ping_at) =>
    /\ Dispatched
    /\ IsPing(inp')
    /\ Unwrap(inp').payload.shape = "ping"
    /\ Len(Pongs(out')) = 1

C24_OnlyPingRefreshes == [][C24_Step]_vars

\* a Running session whose last frame was a hello: the watchdog's clock was
\* restarted at a time when HEARTBEAT_TIMEOUT had passed since the session began
C24_Witness ==
  /\ handshake_complete
  /\ IsHello(inp)
  /\ inbound_left = MaxInbound - 2
  /\ now >= HEARTBEAT_TIMEOUT
  /\ last_ping_at = now
  /\ pc = "drain"
  /\ result = "running"

\* C25: a hello read while the session is already Running is not treated as a
\* handshake: it writes no hello_ack and does not restart the handshake state, so
\* a session writes at most one hello_ack and enters Running at most once.
HelloAcks(frames) == SelectSeq(frames, LAMBDA e : e.message_type = "hello_ack")

C25_Step ==
  /\ handshake_complete => HelloAcks(out') = <<>> \/ out' = out
  /\ (handshake_complete /\ Dispatched /\ IsHello(inp')) =>
       /\ HelloAcks(out') = <<>>
       /\ last_ping_at' = last_ping_at
       /\ last_status_push_at' = last_status_push_at

C25_HelloOnlyInAwaitHello == [][C25_Step]_vars

\* a Running session answered a second hello with a second hello_ack and
\* restarted its push and watchdog clocks
C25_Witness ==
  /\ handshake_complete
  /\ IsHello(inp)
  /\ inbound_left = MaxInbound - 2
  /\ Len(HelloAcks(out)) = 1
  /\ now > 0
  /\ last_ping_at = now
  /\ last_status_push_at = now - STATUS_PUSH_INTERVAL

\* C26: every protocol_error frame a read step writes is recorded in the
\* protocol-error tracker, the invalid_payload errors for an invalid mode string
\* and for an unknown setting key included (the bound on protocol_error frames
\* per window rests on this).
ProtocolErrors(frames) == SelectSeq(frames, LAMBDA e : e.message_type = "protocol_error")

C26_Step ==
  (Dispatched /\ ProtocolErrors(out') # <<>> /\ pc' # "done") =>
    /\ counted' = Append(counted, now)
    /\ protocol_errors' # <<>>
    /\ protocol_errors'[Len(protocol_errors')] = now

C26_EveryErrorCounted == [][C26_Step]_vars

\* a Running session has answered its last MaxInbound - 1 frames, the latest an
\* invalid mode, and its tracker has recorded nothing
C26_Witness ==
  /\ handshake_complete
  /\ IsRequest(inp, "set_mode_request")
  /\ Len(ProtocolErrors(out)) = 1
  /\ out[1].payload.code = "invalid_payload"
  /\ protocol_errors = <<>>
  /\ counted = <<>>
  /\ inbound_left = 0
  /\ pc = "drain"

\* C27: a set_mode_request whose mode is neither studio nor irl and a
\* set_setting_request whose key is unknown each yield exactly one
\* protocol_error of code invalid_payload referencing the frame's id, and leave
\* the session running with its handshake state and overrides unchanged, however
\* many of them the peer sends and at whatever rate.
DomainError(o) ==
  \/ IsRequest(o, "set_mode_request") /\ Unwrap(o).payload.mode \notin {"studio", "irl"}
  \/ /\ IsRequest(o, "set_setting_request")
     /\ Unwrap(o).payload.key \notin
          {"auto_scene_switch", "low_quality_fallback", "manual_override", "chat_bot",
           "alerts"}

C27_Step ==
  (Dispatched /\ DomainError(inp')) =>
    /\ Len(out') = 1
    /\ out'[1].message_type = "protocol_error"
    /\ out'[1].payload.code = "invalid_payload"
    /\ out'[1].payload.related_message_id = Some(Unwrap(inp').id)
    /\ pc' = "drain"
    /\ result' = "running"
    /\ handshake_complete' = handshake_complete
    /\ session_overrides' = session_overrides

C28_MirrorCountMatchesTable ==
  pc \notin {"done", "accept"} =>
    debug_status.pending_switch_count = Cardinality(DOMAIN pending_switches)

\* the sweep has removed the only pending entry and awaits the write of its
\* timeout notice; the mirror still reports one pending request
C28_Witness ==
  /\ pc = "sweep_write"
  /\ result = "running"
  /\ expired # None
  /\ pending_switches = EmptyMap
  /\ debug_status.pending_switch_count = 1
  /\ debug_status.session_connected

\* C29: a scene_switch_result whose request_id is not in the pending table (never
\* issued, already acknowledged or already timed out) sets the mirror's
\* last_switch_result to "unknown_request" for that id, emits no frame, leaves the
\* pending table and pending_switch_count unchanged, is not counted as a protocol
\* error and does not end the session.
C29_Step ==
  (Dispatched /\ IsResult(inp')
     /\ Unwrap(inp').payload.request_id \notin DOMAIN pending_switches) =>
    LET f == Unwrap(inp')
    IN /\ debug_status'.last_switch_result =
            MirrorResult(f.payload.request_id, "unknown_request", f.payload.error)
       /\ out' = <<>>
       /\ pending_switches' = pending_switches
       /\ debug_status'.pending_switch_count = debug_status.pending_switch_count
       /\ protocol_errors' = protocol_errors
       /\ counted' = counted
       /\ terminal' = terminal
       /\ pc' = "drain"
       /\ result' = "running"

C29_UnknownRequestResult == [][C29_Step]_vars

\* a second result for a request that was already acknowledged, received while
\* another request is still pending
C29_Witness ==
  /\ IsResult(inp)
  /\ pc = "drain"
  /\ result = "running"
  /\ pending_switches # EmptyMap
  /\ \E r \in acked \cap emitted :
       /\ r = Unwrap(inp).payload.request_id
       /\ Len(terminal[r]) = 1
       /\ terminal[r][1].status \in {"ok", "error"}
       /\ debug_status.last_switch_result =
            MirrorResult(r, "unknown_request", Unwrap(inp).payload.error)

\* a result for a request id the session never issued
C29_WitnessNeverIssued ==
  /\ IsResult(inp)
  /\ pc = "drain"
  /\ handshake_complete
  /\ Unwrap(inp).payload.request_id \notin emitted
  /\ pending_switches # EmptyMap
  /\ debug_status.last_switch_result =
       MirrorResult(Unwrap(inp).payload.request_id, "unknown_request",
                    Unwrap(inp).payload.error)

\* C21: the listener serves one session at a time.  It accepts only after the
\* previous session loop has returned and the mirror has been cleared; the mirror
\* has session_connected = true from the accept to the end of that session and at
\* no other time; after every session end, clean or with an error, the mirror has
\* session_connected = false and pending_switch_count = 0 before the next accept.
C21_Step ==
  /\ debug_status.session_connected <=> pc # "accept"
  /\ pc = "accept" => debug_status.pending_switch_count = 0
  /\ session_no' # session_no =>
       /\ pc = "accept"
       /\ result \in {"ok", "err"}
       /\ session_no' = session_no + 1
       /\ pc' = "drain"
       /\ debug_status'.session_connected
  /\ (pc = "done" /\ pc' # "done") =>
       /\ pc' = "accept"
       /\ session_no' = session_no
       /\ ~debug_status'.session_connected
       /\ debug_status'.pending_switch_count = 0
  /\ debug_status'.session_connected # debug_status.session_connected =>
       \/ pc = "done" /\ pc' = "accept"
       \/ pc = "accept" /\ session_no' = session_no + 1

C21_OneSessionAtATime == [][C21_Step]_vars

\* the second session is running after the first one ended with a read error
\* while a switch request was pending
C21_Witness ==
  /\ session_no = 2
  /\ result = "running"
  /\ handshake_complete
  /\ debug_status.session_connected
  /\ debug_status.pending_switch_count = 0
  /\ emitted \ (acked \cup fired) # {}
  /\ pending_switches = EmptyMap

\* the listener waits for the next client after a session that ended cleanly
C21_WitnessClean ==
  /\ pc = "accept"
  /\ result = "ok"
  /\ ~debug_status.session_connected
  /\ debug_status.pending_switch_count = 0
  /\ emitted \ (acked \cup fired) # {}

\* C22: commands are never replayed across connections.  Every switch_scene frame
\* a session writes carries a command that was sent while this very session was
\* attached: a command sent while no session was attached, or sent during an
\* earlier session and still undrained when it ended, is never emitted later.
C22_Step ==
  /\ \A r \in emitted' \ emitted :
       /\ core_cmd_rx # <<>>
       /\ Head(core_cmd_rx).epoch = session_no
       /\ out'[1].payload.request_id = r
       /\ out'[1].payload.scene_name = Head(core_cmd_rx).scene_name
  /\ pc = "accept" => emitted' = emitted /\ out' = <<>>
  /\ session_no' # session_no => core_cmd_rx' = <<>>

C22_NoReplayAcrossSessions == [][C22_Step]_vars

\* the second session has emitted the one command it was sent itself; the command
\* sent before it never became a frame
C22_Witness ==
  /\ session_no = 2
  /\ handshake_complete
  /\ sent = 2
  /\ Cardinality(emitted) = 1
  /\ DOMAIN pending_switches = emitted
  /\ core_cmd_rx = <<>>
  /\ pc = "read"

\* a session ended while a command was waiting on its receiver
C22_WitnessUndrained ==
  /\ pc = "accept"
  /\ core_cmd_rx # <<>>
  /\ sent < MaxRequests
  /\ emitted = {}

\* C30: session state is per session.  Every session the listener accepts starts
\* in AwaitHello with an empty pending-switch table, all overrides unset and an
\* empty protocol-error tracker, whatever overrides, pending requests or recorded
\* errors the previous session had when it ended.
C30_Step ==
  session_no' # session_no =>
    /\ pc' = "drain"
    /\ result' = "running"
    /\ ~handshake_complete'
    /\ pending_switches' = EmptyMap
    /\ session_overrides' = SessionOverridesDefault
    /\ protocol_errors' = <<>>
    /\ expired_ids' = <<>> /\ expired' = None
    /\ last_ping_at' = now /\ last_status_push_at' = now

C30_FreshSessionState == [][C30_Step]_vars

\* the second session has just been accepted, some time after a first one that
\* ended with a switch request pending and a protocol error recorded
C30_Witness ==
  /\ session_no = 2
  /\ pc = "drain"
  /\ ~handshake_complete
  /\ pending_switches = EmptyMap
  /\ session_overrides = SessionOverridesDefault
  /\ protocol_errors = <<>>
  /\ counted # <<>>
  /\ emitted \ (acked \cup fired) # {}
  /\ now > 0
  /\ last_ping_at = now

\* a session has ended with a mode override set, a switch request pending and a
\* protocol error in its tracker, and the listener is about to accept the next
C30_WitnessLeftBehind ==
  /\ pc = "accept"
  /\ session_no < MaxSessions
  /\ handshake_complete
  /\ session_overrides.mode = Some("irl")
  /\ pending_switches # EmptyMap
  /\ protocol_errors # <<>>

\* the fresh session is served like a first one: its hello is acknowledged and
\* its first protocol error is the only one in its tracker
C30_WitnessServed ==
  /\ session_no = 2
  /\ handshake_complete
  /\ Len(counted) = 2
  /\ Len(protocol_errors) = 1
  /\ result = "running"

\* C31: a set_mode_request or set_setting_request that changes an override writes,
\* in this order and nothing else, one user_notice of level info and one
\* status_snapshot of priority high that already shows the new override (mode is
\* the requested mode, or settings carries the new value), and restarts the
\* interval of the periodic push.
ChangingRequest(o) ==
  \/ /\ IsRequest(o, "set_mode_request")
     /\ Unwrap(o).payload.mode \in {"studio", "irl"}
     /\ session_overrides.mode # Some(Unwrap(o).payload.mode)
  \/ /\ IsRequest(o, "set_setting_request")
     /\ Unwrap(o).payload.key \in KnownSettingKeys
     /\ session_overrides[Unwrap(o).payload.key] # Some(Unwrap(o).payload.value)

C31_Step ==
  (Dispatched /\ ChangingRequest(inp')) =>
    LET p == Unwrap(inp').payload
    IN /\ Len(out') = 2
       /\ out'[1].message_type = "user_notice"
       /\ out'[1].payload.level = "info"
       /\ out'[2].message_type = "status_snapshot"
       /\ out'[2].priority = "high"
       /\ IF p.shape = "set_mode_request"
          THEN /\ out'[2].payload.mode = p.mode
               /\ session_overrides' = [session_overrides EXCEPT !.mode = Some(p.mode)]
          ELSE /\ out'[2].payload.settings # None
               /\ p.key \in DOMAIN Unwrap(out'[2].payload.settings)
               /\ Unwrap(out'[2].payload.settings)[p.key] = p.value
               /\ session_overrides' = [session_overrides EXCEPT ![p.key] = Some(p.value)]
       /\ last_status_push_at' = now
       /\ pc' = "drain"
       /\ result' = "running"

C31_ChangeNoticeThenSnapshot == [][C31_Step]_vars

\* a Running session whose mode override was studio has just been switched to
\* irl, some time after its last push
C31_Witness ==
  /\ handshake_complete
  /\ IsRequest(inp, "set_mode_request")
  /\ Unwrap(inp).payload.mode = "irl"
  /\ inbound_left = 0
  /\ Len(out) = 2
  /\ out[1].payload.level = "info"
  /\ out[2].payload.mode = "irl"
  /\ now > 0
  /\ last_status_push_at = now

\* a setting has just been set to false
C31_WitnessSetting ==
  /\ IsRequest(inp, "set_setting_request")
  /\ Unwrap(inp).payload.value = FALSE
  /\ inbound_left = 0
  /\ Len(out) = 2
  /\ out[2].payload.settings # None
  /\ \E k \in DOMAIN Unwrap(out[2].payload.settings) :
       /\ k = Unwrap(inp).payload.key
       /\ Unwrap(out[2].payload.settings)[k] = FALSE
  /\ now > 0

\* C32: each request_status received in Running is answered by exactly one
\* status_snapshot of priority high and restarts the push interval: no periodic
\* (priority normal) status_snapshot is written earlier than STATUS_PUSH_INTERVAL
\* after that reply.
PeriodicSnapshots(frames) ==
  SelectSeq(frames, LAMBDA e : e.message_type = "status_snapshot" /\ e.priority = "normal")

C32_Step ==
  /\ (Dispatched /\ handshake_complete /\ IsRequest(inp', "request_status")) =>
       /\ Len(out') = 1
       /\ out'[1].message_type = "status_snapshot"
       /\ out'[1].priority = "high"
       /\ last_status_push_at' = now
       /\ last_reply_at' = Some(now)
  /\ (out' # out /\ PeriodicSnapshots(out') # <<>> /\ last_reply_at # None) =>
       now - Unwrap(last_reply_at) >= STATUS_PUSH_INTERVAL

C32_RequestStatusResetsPush == [][C32_Step]_vars

\* a periodic snapshot written in the very instant of the reply to a
\* request_status: a hello received after the reply made the push due again
C32_Witness ==
  /\ handshake_complete
  /\ pc = "heartbeat"
  /\ PeriodicSnapshots(out) # <<>>
  /\ last_reply_at = Some(now)
  /\ now > 0

\* C33: an inbound frame whose declared length exceeds MAX_FRAME_SIZE is answered
\* with protocol_error frame_too_large, and one of at most MAX_FRAME_SIZE bytes
\* whose body does not decode with protocol_error decode_failed; either error
\* carries no related_message_id and is counted by the tracker, and the session
\* goes on unless the tracker says reset.
FrameError(o) == o # None /\ "len" \in DOMAIN Unwrap(o)

C33_Step ==
  (Dispatched /\ FrameError(inp')) =>
    /\ Len(out') = 1
    /\ out'[1].message_type = "protocol_error"
    /\ out'[1].payload.code =
         IF Unwrap(inp').len > MAX_FRAME_SIZE THEN "frame_too_large" ELSE "decode_failed"
    /\ out'[1].payload.related_message_id = None
    /\ counted' = Append(counted, now)
    /\ Len(protocol_errors') <= PROTOCOL_ERROR_RESET_THRESHOLD =>
         (pc' = "drain" /\ result' = "running")

C33_FrameErrorCodes == [][C33_Step]_vars

\* a frame of MAX_FRAME_SIZE bytes that did not decode was answered with
\* frame_too_large: the decoder's message repeated those words from the body
C33_Witness ==
  /\ FrameError(inp)
  /\ Unwrap(inp).len = MAX_FRAME_SIZE
  /\ Unwrap(inp).text = "decode failed"
  /\ Len(out) = 1
  /\ out[1].payload.code = "frame_too_large"
  /\ pc = "drain"

\* C39: after the session rejected a frame whose declared length exceeds
\* MAX_FRAME_SIZE, prefix and body having been sent, it is still aligned on frame
\* boundaries: the bytes of the rejected body are never read as a length, so the
\* frame accounts for one counted protocol error only and the peer's next frame is
\* read from its own prefix.
C39_Step ==
  (pc = "read" /\ CanRead /\ cmd_reader.partial = None
     /\ cmd_reader'.unread # cmd_reader.unread /\ cmd_reader'.owed = cmd_reader.owed) =>
    Head(cmd_reader.unread).kind # "over"

C39_AlignedAfterOversize == [][C39_Step]_vars

\* the session has answered an oversize frame and then one more protocol error
\* for the first bytes of its body, while a well-formed frame waits behind the
\* rest of them
C39_Witness ==
  /\ FrameError(inp)
  /\ Unwrap(inp).len \in {0, BigLen}
  /\ Len(counted) = 2
  /\ Len(cmd_reader.unread) = 3
  /\ cmd_reader.unread[1].kind = "over"
  /\ cmd_reader.unread[1].n = MAX_FRAME_SIZE
  /\ cmd_reader.unread[3].kind = "body"

\* the session was ended by the tracker on the bytes of one oversize frame, the
\* only frame the peer sent after its hello
C39_WitnessReset ==
  /\ pc = "done"
  /\ result = "ok"
  /\ handshake_complete
  /\ inbound_left = MaxInbound - 2
  /\ Len(counted) = PROTOCOL_ERROR_RESET_THRESHOLD + 1
  /\ Len(cmd_reader.unread) = 1
  /\ cmd_reader.unread[1].kind = "over"

\* C38: a read-poll timeout never loses or splits inbound data.  When the poll
\* slice runs out after read_frame has taken part of a frame, what it has taken
\* is kept and the rest is read as the continuation of the same frame: the body
\* of a well-formed frame is never read as a length.
C38_Step ==
  /\ (pc = "read" /\ pc' = "drain" /\ inp' = None) =>
       cmd_reader'.partial = cmd_reader.partial
  /\ (pc = "read" /\ CanRead /\ cmd_reader.partial = None
        /\ cmd_reader'.unread # cmd_reader.unread /\ cmd_reader'.owed = cmd_reader.owed) =>
       Head(cmd_reader.unread).kind # "body"

C38_TimeoutKeepsFrame == [][C38_Step]_vars

\* the peer wrote the prefix of its hello, paused for a poll slice and wrote the
\* body; the session answered the first bytes of the body with frame_too_large
\* and is not in Running
C38_Witness ==
  /\ FrameError(inp)
  /\ Unwrap(inp).len = BigLen
  /\ ~handshake_complete
  /\ inbound_left = MaxInbound - 1
  /\ counted = <<now>>
  /\ now >= READ_POLL_TIMEOUT
  /\ Len(cmd_reader.unread) = 1
  /\ cmd_reader.unread[1].n = WireLen - 4
  /\ Len(out) = 1
  /\ out[1].payload.code = "frame_too_large"

\* C34: every snapshot a step writes, and the snapshot built from the current
\* inputs, has the session's mode override as its mode when one is set, whatever
\* the state mode (DEGRADED included); without a mode override the mode is irl
\* exactly for the state modes IRL_CONNECTING, IRL_ACTIVE and IRL_GRACE and
\* studio for the others.
ModeAsClaimed(payload, overrides) ==
  IF overrides.mode # None
  THEN payload.mode = Unwrap(overrides.mode)
  ELSE /\ payload.mode \in {"irl", "studio"}
       /\ payload.mode = "irl"
            <=> payload.state_mode \in {"IRL_CONNECTING", "IRL_ACTIVE", "IRL_GRACE"}

C34_Step ==
  /\ ModeAsClaimed(CurrentSnapshot, session_overrides)
  /\ pc' # pc =>
       \A i \in 1..Len(Snapshots(out')) :
         ModeAsClaimed(Snapshots(out')[i].payload, session_overrides')

C34_ModeOverrideWins == [][C34_Step]_vars

\* a snapshot written while OBS is disconnected and a relay session is active
\* carries the override irl next to the state mode DEGRADED
C34_Witness ==
  /\ Snapshots(out) # <<>>
  /\ Snapshots(out)[1].payload.mode = "irl"
  /\ Snapshots(out)[1].payload.state_mode = "DEGRADED"
  /\ session_overrides.mode = Some("irl")
  /\ inp # None
  /\ "message_type" \in DOMAIN Unwrap(inp)
  /\ Unwrap(inp).message_type = "set_mode_request"

\* a snapshot written without any mode override while the relay is in grace
C34_WitnessDerived ==
  /\ Snapshots(out) # <<>>
  /\ Snapshots(out)[1].payload.mode = "irl"
  /\ Snapshots(out)[1].payload.state_mode = "IRL_GRACE"
  /\ session_overrides.mode = None

\* a snapshot with the override studio while the relay session is active
C34_WitnessStudioOverIrl ==
  /\ Snapshots(out) # <<>>
  /\ Snapshots(out)[1].payload.mode = "studio"
  /\ Snapshots(out)[1].payload.state_mode = "IRL_ACTIVE"
  /\ session_overrides.mode = Some("studio")

\* C35: after any sequence of set_setting_request frames every snapshot a step
\* writes, and the snapshot built from the current inputs, carries a settings
\* block exactly when one of the five boolean overrides of the session is set;
\* the block has exactly the set keys, each with the value the session holds
\* (the latest one requested); override_enabled is the manual_override override
\* and FALSE without one.
SettingsAsClaimed(payload, overrides) ==
  LET set == {k \in KnownSettingKeys : overrides[k] # None}
  IN /\ payload.settings # None <=> set # {}
     /\ payload.settings # None =>
          /\ DOMAIN Unwrap(payload.settings) = set
          /\ \A k \in set : Unwrap(payload.settings)[k] = Unwrap(overrides[k])
     /\ payload.override_enabled =
          IF overrides.manual_override # None
          THEN Unwrap(overrides.manual_override) ELSE FALSE

\* the value a changing set_setting_request asks for is the one the session
\* holds afterwards, and no other key changes
LatestValueHeld ==
  (/\ pc = "read" /\ pc' # "read" /\ inp' # None
   /\ "message_type" \in DOMAIN Unwrap(inp')
   /\ Unwrap(inp').message_type = "set_setting_request"
   /\ Unwrap(inp').payload.shape = "set_setting_request")
  => LET p == Unwrap(inp').payload
     IN /\ p.key \in KnownSettingKeys => session_overrides'[p.key] = Some(p.value)
        /\ \A k \in KnownSettingKeys \ {p.key} :
             session_overrides'[k] = session_overrides[k]

C35_Step ==
  /\ SettingsAsClaimed(CurrentSnapshot, session_overrides)
  /\ LatestValueHeld
  /\ pc' # pc =>
       \A i \in 1..Len(Snapshots(out')) :
         SettingsAsClaimed(Snapshots(out')[i].payload, session_overrides')

C35_SettingsBlockIffSet == [][C35_Step]_vars

\* a snapshot after alerts was set to TRUE and then to FALSE, manual_override
\* never: the block holds alerts alone, with FALSE
C35_Witness ==
  /\ Snapshots(out) # <<>>
  /\ Snapshots(out)[1].payload.settings = Some([k \in {"alerts"} |-> FALSE])
  /\ Snapshots(out)[1].payload.override_enabled = FALSE
  /\ inp # None
  /\ "message_type" \in DOMAIN Unwrap(inp)
  /\ Unwrap(inp).message_type = "set_setting_request"
  /\ inbound_left <= MaxInbound - 2

\* a snapshot without a settings block after a mode override alone
C35_WitnessNoBlock ==
  /\ Snapshots(out) # <<>>
  /\ Snapshots(out)[1].payload.settings = None
  /\ session_overrides.mode # None
  /\ ~has_any_settings(session_overrides)

\* a snapshot with both manual_override and alerts set
C35_WitnessTwoKeys ==
  /\ Snapshots(out) # <<>>
  /\ Snapshots(out)[1].payload.settings # None
  /\ DOMAIN Unwrap(Snapshots(out)[1].payload.settings) = {"manual_override", "alerts"}
  /\ Snapshots(out)[1].payload.override_enabled

\* C36: the step that reads a well-formed obs_shutdown_notice puts the notice's
\* reason into the mirror's last_notice and returns Ok(()) without writing a
\* frame; the pending table is left as it is (overdue entries included), no
\* entry gets a timeout notice or a terminal update in the mirror, nothing is
\* counted; and the only step after the return is the listener's clean-up, which
\* writes nothing either.
ShutdownRead(o) ==
  /\ o # None
  /\ "message_type" \in DOMAIN Unwrap(o)
  /\ Unwrap(o).message_type = "obs_shutdown_notice"
  /\ Unwrap(o).v = IPC_PROTOCOL_VERSION
  /\ Unwrap(o).payload.shape = "obs_shutdown_notice"

C36_Step ==
  /\ (pc = "read" /\ pc' # "read" /\ ShutdownRead(inp')) =>
       /\ pc' = "done"
       /\ result' = "ok"
       /\ out' = <<>>
       /\ debug_status'.last_notice =
            Some(Notice("obs shutdown notice", Unwrap(inp').payload.reason, 0))
       /\ debug_status'.last_switch_result = debug_status.last_switch_result
       /\ debug_status'.pending_switch_count = debug_status.pending_switch_count
       /\ pending_switches' = pending_switches
       /\ terminal' = terminal
       /\ fired' = fired
       /\ counted' = counted
  /\ pc = "done" =>
       /\ pc' \in {"done", "accept"}
       /\ out' = <<>>
       /\ terminal' = terminal
       /\ fired' = fired
       /\ debug_status'.last_notice = debug_status.last_notice
       /\ debug_status'.last_switch_result = debug_status.last_switch_result

C36_ShutdownNoticeEndsSession == [][C36_Step]_vars

\* a shutdown notice read in a Running session while a switch request is past
\* its deadline and still in the table
C36_Witness ==
  /\ pc = "done"
  /\ ShutdownRead(inp)
  /\ handshake_complete
  /\ ExpiredAt(pending_switches, now) # {}
  /\ debug_status.last_notice = Some(Notice("obs shutdown notice", "exit", 0))

\* the listener took the session back with the entry still untold
C36_WitnessReturned ==
  /\ pc = "accept"
  /\ result = "ok"
  /\ pending_switches # EmptyMap
  /\ fired = {}
  /\ debug_status.last_notice = Some(Notice("obs shutdown notice", "exit", 0))

\* C37: the step in which read_frame fails with a transport error (end of
\* stream included) writes no frame, leaves the tracker, the count of protocol
\* errors and the mirror as they are and returns the error; the only step after
\* it is the listener's clean-up, which writes nothing and leads to the next
\* accept.
TransportErrorRead(o) == o # None /\ Unwrap(o) = [error |-> "io"]

C37_Step ==
  /\ (pc = "read" /\ TransportErrorRead(inp')) =>
       /\ pc' = "done"
       /\ result' = "err"
       /\ out' = <<>>
       /\ protocol_errors' = protocol_errors
       /\ counted' = counted
       /\ debug_status' = debug_status
  /\ (pc = "done" /\ result = "err" /\ pc' # pc) =>
       /\ pc' = "accept"
       /\ out' = <<>>
       /\ counted' = counted
       /\ ~debug_status'.session_connected

C37_TransportErrorSilent == [][C37_Step]_vars

\* the peer closed the pipe on a Running session with a switch request pending
C37_Witness ==
  /\ pc = "done"
  /\ TransportErrorRead(inp)
  /\ result = "err"
  /\ handshake_complete
  /\ pending_switches # EmptyMap
  /\ counted = <<>>

\* the listener is back at accept after a transport error
C37_WitnessReturned ==
  /\ pc = "accept"
  /\ result = "err"
  /\ ~debug_status.session_connected
  /\ counted = <<>>

\* C40: while handshake_complete is false the push step writes no snapshot and
\* the watchdog step writes no protocol_error and does not end the session; no
\* step writes a status_snapshot or a protocol_error with code timeout to a
\* peer that has not completed the handshake; and the session ends only by a
\* transport error or a closed pipe, an envelope or hello of another version, a
\* shutdown notice, or the reset of the protocol-error tracker.
HasSnapshotOrTimeout(frames) ==
  \E i \in 1..Len(frames) :
    \/ frames[i].message_type = "status_snapshot"
    \/ frames[i].message_type = "protocol_error" /\ frames[i].payload.code = "timeout"

EndedByPeer ==
  \/ result' = "err"
  \/ /\ inp' # None
     /\ "message_type" \in DOMAIN Unwrap(inp')
     /\ \/ Unwrap(inp').v # IPC_PROTOCOL_VERSION
        \/ Unwrap(inp').message_type = "hello"
        \/ Unwrap(inp').message_type = "obs_shutdown_notice"
  \/ /\ Len(counted') > Len(counted)
     /\ Len(protocol_errors') > PROTOCOL_ERROR_RESET_THRESHOLD

C40_Step ==
  (~handshake_complete /\ ~handshake_complete') =>
    /\ pc = "push" => out' = <<>> /\ pc' = "heartbeat"
    /\ pc = "heartbeat" => out' = <<>> /\ pc' = "read"
    /\ pc' # pc => ~HasSnapshotOrTimeout(out')
    /\ (pc # "done" /\ pc' = "done") => EndedByPeer

C40_NoPushNoWatchdogInAwaitHello == [][C40_Step]_vars

\* the session is open and idle, a heartbeat timeout and a poll slice after the
\* peer connected, without a hello
C40_Witness ==
  /\ ~handshake_complete
  /\ pc = "read"
  /\ now >= HEARTBEAT_TIMEOUT + UnreadyTick
  /\ now - last_ping_at >= HEARTBEAT_TIMEOUT
  /\ now - last_status_push_at >= STATUS_PUSH_INTERVAL
  /\ result = "running"
  /\ last_snapshot_at = None

\* a peer that has not said hello is sent a snapshot
C40_WitnessSnapshot ==
  /\ ~handshake_complete
  /\ out # <<>>
  /\ out[1].message_type = "status_snapshot"
  /\ inp # None
  /\ "message_type" \in DOMAIN Unwrap(inp)
  /\ Unwrap(inp).message_type = "request_status"

====
